---- MODULE Spec2Model ----
(***************************************************************************)
(* A model of the stm-mcp transit query services: the GTFS time and        *)
(* service-day functions of services/schedule_service.py, the scheduled    *)
(* arrivals query, and the trip planner of services/trip_planner.py        *)
(* (direct and one-transfer itineraries over a static GTFS dataset).       *)
(*                                                                         *)
(* Representation.                                                         *)
(*  - A time string is the sequence of its ':'-separated parts, each the   *)
(*    number its zero-padded digits spell (or NaP when not a number);      *)
(*    None is the empty sequence.  SQL compares time strings as text,      *)
(*    which on zero-padded fields is the lexicographic order of the parts  *)
(*    (TextLeq).  Parsing fails on anything but three numeric parts;       *)
(*    formatting builds the fields the f-string builds (the window ends    *)
(*    computed by the trip planner are formatted with ":00" seconds).      *)
(*  - A calendar date is a day number; day 0 is 2025-01-30, a Thursday.    *)
(*    date_to_gtfs_format gives the YYYYMMDD text, modelled as the integer *)
(*    with those digits (text order of fixed-width digits = integer order).*)
(*  - The store is the record db: the tables the queries read.  It is the  *)
(*    content of the database file; files tells whether the file (and the  *)
(*    loader's temp file) is there, loader is the state of GTFSLoader's    *)
(*    ingest, index is SearchIndex._instance, the cached search index.     *)
(***************************************************************************)
EXTENDS Integers, Sequences, FiniteSets, TLC

VARIABLES db, files, loader, index, op, req, res, obs, feeds

vars == <<db, files, loader, index, op, req, res, obs, feeds>>

None == <<>>
NULL == "NULL"

\* ---------------------------------------------------------------- bounds
\* Days of the model's calendar window: 0 .. NumDays - 1.
NumDays == 5
\* plan_trip's limit ranges over 1 .. MaxLimit.
MaxLimit == 3
\* SearchIndex instances created in one run of the server.
MaxInstances == 2
\* Concurrent callers of one feed service function.
MaxCallers == 2
\* Upstream fetches that succeed in one run.
MaxFetches == 2
\* The monotonic clock of the feed caches, in seconds, stays <= MaxClock.
MaxClock == 30

Days == 0 .. (NumDays - 1)

\* ------------------------------------------------------------- sequences
RECURSIVE InsertByKey(_, _, _)
\* Insert e (with sort key k) after every element whose key is <= k: the step
\* of a stable ascending sort.  Elements are <<key, value>> pairs.
InsertByKey(sorted, k, e) ==
    IF sorted = <<>> THEN << <<k, e>> >>
    ELSE IF Head(sorted)[1] <= k
         THEN << Head(sorted) >> \o InsertByKey(Tail(sorted), k, e)
         ELSE << <<k, e>> >> \o sorted

RECURSIVE SortPairs(_)
SortPairs(pairs) ==
    IF pairs = <<>> THEN <<>>
    ELSE LET n == Len(pairs)
             front == SortPairs(SubSeq(pairs, 1, n - 1))
         IN  InsertByKey(front, pairs[n][1], pairs[n][2])

\* The slice dropped: the whole list.
Take_All(s, n) == s

\* s[:n]
Take(s, n) == SubSeq(s, 1, IF n < Len(s) THEN n ELSE Len(s))

\* ------------------------------------------------------------ GTFS times
\* A time string is the sequence of its ':'-separated parts; a part is the
\* number its digits spell (int() takes a sign: "-5" is -5), or NaP for a
\* part int() rejects.  "08:00" is <<8, 0>>, "8h:00:00" is <<NaP, 0, 0>>.
NaP == -1000

ValueError == "ValueError"

\* parse_gtfs_time: exactly three parts, each an integer; otherwise raises.
parse_gtfs_time(time_str) ==
    IF Len(time_str) # 3 THEN [raised |-> TRUE, value |-> None]
    ELSE IF \E i \in 1 .. 3 : time_str[i] = NaP
         THEN [raised |-> TRUE, value |-> None]
         ELSE [raised |-> FALSE,
               value |-> <<time_str[1], time_str[2], time_str[3]>>]

\* hours * 3600 + minutes * 60 + seconds
HMSSeconds(p) == p[1] * 3600 + p[2] * 60 + p[3]

\* Defined where parse_gtfs_time does not raise.
gtfs_time_to_seconds(time_str) == HMSSeconds(parse_gtfs_time(time_str).value)

\* f"{h:02d}:{m:02d}:{s:02d}"
FormatHMS(h, m, s) == <<h, m, s>>

\* Text order of two unsigned parts: digits sort before any other character.
PartLt(x, y) == x # NaP /\ (y = NaP \/ x < y)

RECURSIVE TextLeq(_, _)
\* a <= b as SQLite compares TEXT: part by part, a proper prefix first.
TextLeq(a, b) ==
    IF a = <<>> THEN TRUE
    ELSE IF b = <<>> THEN FALSE
    ELSE IF Head(a) = Head(b) THEN TextLeq(Tail(a), Tail(b))
    ELSE PartLt(Head(a), Head(b))

time_to_gtfs_format(dt) == FormatHMS(dt.hour, dt.minute, dt.second)

\* The quotient rounded toward zero instead of down.
calculate_minutes_until_Truncating(arrival_time, query_time) ==
    LET Minutes(arrival_seconds, query_seconds) ==
            IF arrival_seconds >= query_seconds
            THEN (arrival_seconds - query_seconds) \div 60
            ELSE 0 - ((query_seconds - arrival_seconds) \div 60)
    IN  Minutes(gtfs_time_to_seconds(arrival_time), gtfs_time_to_seconds(query_time))

\* Defined where neither argument makes parse_gtfs_time raise.  Python's //
\* rounds down, as \div does.
calculate_minutes_until(arrival_time, query_time) ==
    LET Minutes(arrival_seconds, query_seconds) ==
            (arrival_seconds - query_seconds) \div 60
    IN  Minutes(gtfs_time_to_seconds(arrival_time), gtfs_time_to_seconds(query_time))

LATE_NIGHT_THRESHOLD_HOUR == 4

\* date - timedelta(days=1)
PrevDay(d) == d - 1

\* The threshold hour itself counted as late night.
get_gtfs_service_context_Inclusive(dt) ==
    LET is_late_night == dt.hour <= LATE_NIGHT_THRESHOLD_HOUR
    IN  IF is_late_night
        THEN <<PrevDay(dt.day), FormatHMS(dt.hour + 24, dt.minute, dt.second), TRUE>>
        ELSE <<dt.day, FormatHMS(dt.hour, dt.minute, dt.second), FALSE>>

get_gtfs_service_context(dt) ==
    LET is_late_night == dt.hour < LATE_NIGHT_THRESHOLD_HOUR
    IN  IF is_late_night
        THEN <<PrevDay(dt.day), FormatHMS(dt.hour + 24, dt.minute, dt.second), TRUE>>
        ELSE <<dt.day, FormatHMS(dt.hour, dt.minute, dt.second), FALSE>>

\* None when parse_gtfs_time raises.
safe_parse_gtfs_time(time_str) ==
    LET Caught(p) == IF p.raised THEN None ELSE p.value
    IN  Caught(parse_gtfs_time(time_str))

is_time_in_late_night_range(time_str) ==
    LET Test(parsed) ==
            IF parsed = None THEN FALSE ELSE parsed[1] < LATE_NIGHT_THRESHOLD_HOUR
    IN  Test(safe_parse_gtfs_time(time_str))

\* 24:00:00 itself not counted as extended.
is_extended_time_Above24(time_str) ==
    LET Test(parsed) == IF parsed = None THEN FALSE ELSE parsed[1] > 24
    IN  Test(safe_parse_gtfs_time(time_str))

is_extended_time(time_str) ==
    LET Test(parsed) == IF parsed = None THEN FALSE ELSE parsed[1] >= 24
    IN  Test(safe_parse_gtfs_time(time_str))

convert_to_extended_time(time_str) ==
    LET Convert(parsed) ==
            IF parsed = None THEN time_str
            ELSE IF parsed[1] < 24
                 THEN FormatHMS(parsed[1] + 24, parsed[2], parsed[3])
                 ELSE time_str
    IN  Convert(safe_parse_gtfs_time(time_str))

\* None when parse_gtfs_time raises, otherwise <<seconds>>.
safe_gtfs_time_to_seconds(time_str) ==
    LET Seconds(parsed) ==
            IF parsed = None THEN None ELSE << HMSSeconds(parsed) >>
    IN  Seconds(safe_parse_gtfs_time(time_str))

\* ----------------------------------------------------------------- dates
\* date.weekday(): 0 = Monday .. 6 = Sunday; day 0 is a Thursday.
Weekday(d) == (d + 3 + 7) % 7

\* date_to_gtfs_format: strftime("%Y%m%d") of day d, around the January /
\* February boundary of 2025 (day -1 = 20250129, day 1 = 20250131,
\* day 2 = 20250201).
date_to_gtfs_format(d) ==
    IF d <= 1 THEN 20250130 + d ELSE 20250201 + (d - 2)

\* date.isoformat(): "YYYY-MM-DD" as <<year, month, day>>.
isoformat(d) ==
    IF d <= 1 THEN <<2025, 1, 30 + d>> ELSE <<2025, 2, d - 1>>

\* ------------------------------------------------------------- the store
\* Seconds since midnight as a stored HH:MM:SS string.
HMS(sec) == FormatHMS(sec \div 3600, (sec % 3600) \div 60, sec % 60)

\* The stop_times rows of one trip: stops is a sequence of
\* <<stop_id, arrival seconds, departure seconds>>, stop_sequence its index.
TripRows(id, stops) ==
    { [trip_id |-> id, stop_id |-> stops[i][1], stop_sequence |-> i,
       arrival_time |-> HMS(stops[i][2]), departure_time |-> HMS(stops[i][3])]
      : i \in DOMAIN stops }

\* stops: stop_lat / stop_lon are metres along one meridian (<<>> is NULL),
\* parent_station is a station id or NULL.
StopsTable ==
    { [stop_id |-> "O",  pos |-> <<0>>,    parent_station |-> NULL],
      [stop_id |-> "X",  pos |-> <<2000>>, parent_station |-> "ST"],
      [stop_id |-> "X2", pos |-> <<2050>>, parent_station |-> "ST"],
      [stop_id |-> "W",  pos |-> <<2250>>, parent_station |-> NULL],
      [stop_id |-> "Y",  pos |-> <<2300>>, parent_station |-> NULL],
      [stop_id |-> "Z",  pos |-> <<3000>>, parent_station |-> NULL],
      [stop_id |-> "N",  pos |-> <<>>,     parent_station |-> NULL],
      [stop_id |-> "P1", pos |-> <<4000>>, parent_station |-> "SP"],
      [stop_id |-> "P2", pos |-> <<4040>>, parent_station |-> "SP"],
      [stop_id |-> "D",  pos |-> <<5000>>, parent_station |-> NULL] }

RoutesTable == {"RA", "RB", "RC", "RD"}

\* 08:00:00 in seconds.
T0 == 28800

\* The trips p.extra adds to a timetable, as <<trip, route, stops>>, all of
\* service WK:
\*   "dup"       L1, L2: two trips of route RD leaving O together at
\*               08:02:00 on a loop that calls at D twice;
\*   "late"      LD, a direct trip leaving O at 10:00:15; LT, reaching Z at
\*               10:09:30; LI, leaving Z for D at 10:39:15;
\*   "platform"  PT, reaching platform P1 at 08:20:00; PI, leaving platform
\*               P2 of the same station for D at 08:24:30;
\*   "edge"      EI, leaving Z for D at 09:20:30, 30 minutes 30 seconds
\*               after the last arrival from O (T2 at Z, 08:50:00);
\*   "loop"      LP, a loop of route RB that calls at D at 08:35:00, at Z
\*               and at D again at 08:50:00;
\*   "fast"      FD, a direct trip of route RC leaving O at 08:30:00 and
\*               reaching D in 10 minutes.
ExtraTrips(extra) ==
    IF extra = "dup"
    THEN << <<"L1", "RD", << <<"O", T0 + 120, T0 + 120>>, <<"D", T0 + 1200, T0 + 1200>>,
                             <<"Z", T0 + 1800, T0 + 1800>>, <<"D", T0 + 2400, T0 + 2400>> >> >>,
            <<"L2", "RD", << <<"O", T0 + 120, T0 + 120>>, <<"D", T0 + 1200, T0 + 1200>>,
                             <<"Z", T0 + 1800, T0 + 1800>>, <<"D", T0 + 2400, T0 + 2400>> >> >> >>
    ELSE IF extra = "late"
    THEN << <<"LD", "RD", << <<"O", T0 + 7215, T0 + 7215>>, <<"D", T0 + 8415, T0 + 8415>> >> >>,
            <<"LT", "RA", << <<"O", T0 + 6600, T0 + 6600>>, <<"Z", T0 + 7770, T0 + 7770>> >> >>,
            <<"LI", "RB", << <<"Z", T0 + 9555, T0 + 9555>>, <<"D", T0 + 10200, T0 + 10200>> >> >> >>
    ELSE IF extra = "platform"
    THEN << <<"PT", "RA", << <<"O", T0 + 120, T0 + 120>>, <<"P1", T0 + 1200, T0 + 1200>> >> >>,
            <<"PI", "RB", << <<"P2", T0 + 1470, T0 + 1470>>, <<"D", T0 + 2400, T0 + 2400>> >> >> >>
    ELSE IF extra = "edge"
    THEN << <<"EI", "RB", << <<"Z", T0 + 4830, T0 + 4830>>, <<"D", T0 + 6000, T0 + 6000>> >> >> >>
    ELSE IF extra = "loop"
    THEN << <<"LP", "RB", << <<"D", T0 + 2100, T0 + 2100>>, <<"Z", T0 + 2400, T0 + 2400>>,
                             <<"D", T0 + 3000, T0 + 3000>> >> >> >>
    ELSE IF extra = "fast"
    THEN << <<"FD", "RC", << <<"O", T0 + 1800, T0 + 1800>>, <<"D", T0 + 2400, T0 + 2400>> >> >> >>
    ELSE << >>

\* One timetable.  p.sec: seconds of trip T1's arrival at X; p.gap: trip
\* I1's departure, in seconds after 08:10:00; p.inStop, p.inRoute: where I1
\* boards and its route; p.direct: duration of the direct trip DR (0: none);
\* p.extra: the further trips.
TripsTable(p) ==
    { [trip_id |-> "T1", route_id |-> "RA", service_id |-> "WK"],
      [trip_id |-> "T2", route_id |-> "RA", service_id |-> "WK"],
      [trip_id |-> "I1", route_id |-> p.inRoute, service_id |-> "WK"],
      [trip_id |-> "I2", route_id |-> "RB", service_id |-> "WK"],
      [trip_id |-> "I3", route_id |-> "RB", service_id |-> "WK"],
      [trip_id |-> "I4", route_id |-> "RC", service_id |-> "SA"],
      [trip_id |-> "NT", route_id |-> "RB", service_id |-> "WK"],
      [trip_id |-> "ET", route_id |-> "RB", service_id |-> "WK"] }
    \cup (IF p.direct > 0
          THEN {[trip_id |-> "DR", route_id |-> "RD", service_id |-> "WK"]}
          ELSE {})
    \cup { [trip_id |-> ExtraTrips(p.extra)[i][1], route_id |-> ExtraTrips(p.extra)[i][2],
             service_id |-> "WK"] : i \in DOMAIN ExtraTrips(p.extra) }

StopTimesTable(p) ==
    TripRows("T1", << <<"O", T0, T0>>,
                      <<"X", T0 + 600 + p.sec, T0 + 600 + p.sec>>,
                      <<"W", T0 + 720, T0 + 720>>,
                      <<"Z", T0 + 1200, T0 + 1200>> >>)
    \cup TripRows("T2", << <<"O", T0 + 1800, T0 + 1800>>,
                           <<"X", T0 + 2400, T0 + 2400>>,
                           <<"Z", T0 + 3000, T0 + 3000>> >>)
    \cup TripRows("I1", << <<p.inStop, T0 + 600 + p.gap, T0 + 600 + p.gap>>,
                           <<"D", T0 + 1200 + p.gap, T0 + 1200 + p.gap>> >>)
    \cup TripRows("I2", << <<"X", T0 + 1500, T0 + 1500>>,
                           <<"D", T0 + 2400, T0 + 2400>> >>)
    \cup TripRows("I3", << <<"X2", T0 + 2700, T0 + 2700>>,
                           <<"D", T0 + 3600, T0 + 3600>> >>)
    \cup TripRows("I4", << <<"X", T0 + 1200, T0 + 1200>>,
                           <<"D", T0 + 1800, T0 + 1800>> >>)
    \cup TripRows("NT", << <<"X", 91800, 91800>>,
                           <<"D", 92400, 92400>> >>)
    \cup TripRows("ET", << <<"X", 5400, 5400>>,
                           <<"D", 6000, 6000>> >>)
    \cup (IF p.direct > 0
          THEN TripRows("DR", << <<"O", T0 + 300, T0 + 300>>,
                                 <<"D", T0 + 300 + p.direct, T0 + 300 + p.direct>> >>)
          ELSE {})
    \cup UNION { TripRows(ExtraTrips(p.extra)[i][1], ExtraTrips(p.extra)[i][3])
                 : i \in DOMAIN ExtraTrips(p.extra) }

MonFri == <<1, 1, 1, 1, 1, 0, 0>>
SatSun == <<0, 0, 0, 0, 0, 1, 1>>

\* One calendar.  c.range: the validity range of service WK; c.excDay: the
\* date of the calendar_dates rows; c.wk, c.hol: the exception_type of the
\* row for WK and for HOL (0: no row).  HOL has no calendar row.
CalendarTable(c) ==
    { [service_id |-> "WK", days |-> MonFri,
       start_date |-> c.range[1], end_date |-> c.range[2]],
      [service_id |-> "SA", days |-> SatSun,
       start_date |-> 20250101, end_date |-> 20251231] }

CalendarDatesTable(c) ==
    (IF c.wk = 0 THEN {}
     ELSE {[service_id |-> "WK", date |-> date_to_gtfs_format(c.excDay),
            exception_type |-> c.wk]})
    \cup (IF c.hol = 0 THEN {}
          ELSE {[service_id |-> "HOL", date |-> date_to_gtfs_format(c.excDay),
                 exception_type |-> c.hol]})

MkDb(c, p) ==
    [calendar |-> CalendarTable(c), calendar_dates |-> CalendarDatesTable(c),
     stops |-> StopsTable, routes |-> RoutesTable,
     trips |-> TripsTable(p), stop_times |-> StopTimesTable(p)]

Gaps == {120, 180, 200, 360, 1980, 2040, 2100}

Cal0 == [range |-> <<20250101, 20251231>>, excDay |-> 1, wk |-> 0, hol |-> 0]
Tt0 == [sec |-> 0, gap |-> 360, inStop |-> "X", inRoute |-> "RB", direct |-> 1500,
        extra |-> "none"]

Calendars ==
    [range : {<<20250101, 20251231>>, <<20250101, 20250131>>,
              <<20250201, 20250228>>},
     excDay : {1, 2}, wk : 0 .. 3, hol : 0 .. 2]

Timetables ==
    [sec : {0, 30}, gap : Gaps, inStop : {"X", "X2", "Y", "N"},
     inRoute : {"RB"}, direct : {1500}, extra : {"none"}]
    \cup [sec : {0}, gap : {360}, inStop : {"X", "Y"},
          inRoute : {"RA", "RB"}, direct : {0, 1500, 3600}, extra : {"none"}]
    \cup { [Tt0 EXCEPT !.extra = e] : e \in {"dup", "late", "platform", "edge", "loop", "fast"} }

\* The datasets the model starts from: every calendar with the base
\* timetable, every timetable with the base calendar.
Db0 == MkDb(Cal0, Tt0)
CalDBs == {MkDb(c, Tt0) : c \in Calendars}
TtDBs == {MkDb(Cal0, p) : p \in Timetables}
DBs == CalDBs \cup TtDBs

\* The datasets of the ingest: the installed one, and a new feed with one
\* more stop.
Feed1 == MkDb(Cal0, [Tt0 EXCEPT !.direct = 3600])
Feed2 ==
    [Feed1 EXCEPT !.stops = @ \cup {[stop_id |-> "NEW", pos |-> <<9000>>,
                                     parent_station |-> NULL]}]

\* ------------------------------------------------------- active services
\* The exceptions applied without the removals.
ApplyExceptions_AddOnly(base_services, exceptions) ==
    base_services \cup { r.service_id : r \in { e \in exceptions : e.exception_type = 1 } }

RECURSIVE ApplyExceptions(_, _)
\* The loop over the calendar_dates rows of the date: type 2 discards the
\* service, type 1 adds it, any other type is ignored.
ApplyExceptions(base_services, exceptions) ==
    IF exceptions = {} THEN base_services
    ELSE LET row == CHOOSE r \in exceptions : TRUE
             next == IF row.exception_type = 2
                     THEN base_services \ {row.service_id}
                     ELSE IF row.exception_type = 1
                          THEN base_services \cup {row.service_id}
                          ELSE base_services
         IN  ApplyExceptions(next, exceptions \ {row})

get_active_service_ids(d, query_date) ==
    LET date_str == date_to_gtfs_format(query_date)
        weekday_col == Weekday(query_date) + 1
        base_services ==
            { row.service_id : row \in
                { r \in d.calendar :
                    /\ r.start_date <= date_str /\ date_str <= r.end_date
                    /\ r.days[weekday_col] = 1 } }
        exceptions == { r \in d.calendar_dates : r.date = date_str }
    IN  ApplyExceptions(base_services, exceptions)

\* The early return gone: the queries run whatever the set.
NoActiveServices_Never(active_services) == FALSE

\* "if not active_services": the test before the early return of an empty
\* result, in get_scheduled_arrivals and in both finders.
NoActiveServices(active_services) == active_services = {}

\* ------------------------------------------------------------ row order
\* SQLite returns rows that tie on the ORDER BY key in an order the query
\* does not fix; the model breaks ties by trip, ascending or descending.
TripOrder == <<"DR", "EI", "ET", "FD", "I1", "I2", "I3", "I4", "L1", "L2", "LD", "LI",
               "LP", "LT",
               "NT", "PI", "PT", "T1", "T2">>

Orders == {"asc", "desc"}

TripRank(trip_id, ord) ==
    LET i == CHOOSE k \in DOMAIN TripOrder : TripOrder[k] = trip_id
    IN  IF ord = "asc" THEN i ELSE Len(TripOrder) + 1 - i

\* The digits of a stored HH:MM:SS string as one number: on the zero-padded
\* strings of the store, ORDER BY on the text is the order of these numbers.
TextKey(t) == t[1] * 10000 + t[2] * 100 + t[3]

RECURSIVE KeyLeq(_, _)
\* The order of two ORDER BY keys (tuples of numbers of one length).
KeyLeq(a, b) ==
    IF a = <<>> THEN TRUE
    ELSE IF Head(a) = Head(b) THEN KeyLeq(Tail(a), Tail(b))
    ELSE Head(a) < Head(b)

RECURSIVE SortSet(_)
\* The sequence of the values e of a set of <<key, e>> pairs, by ascending key.
SortSet(P) ==
    IF P = {} THEN <<>>
    ELSE LET m == CHOOSE x \in P : \A y \in P : KeyLeq(x[1], y[1])
         IN  << m[2] >> \o SortSet(P \ {m})

TripOf(d, trip_id) == CHOOSE t \in d.trips : t.trip_id = trip_id

\* ---------------------------------------------------- scheduled arrivals
\* Step 3 without its guard on the mode: every inverted range is extended.
FixInvertedRange_AnyMode(use_extended_times, start_time, end_time) ==
    LET Fix(start_seconds, end_seconds) ==
            IF /\ start_seconds # None
               /\ end_seconds # None
               /\ start_seconds[1] > end_seconds[1]
               /\ ~is_extended_time(end_time)
            THEN convert_to_extended_time(end_time)
            ELSE end_time
    IN  Fix(safe_gtfs_time_to_seconds(start_time), safe_gtfs_time_to_seconds(end_time))

\* Step 3 of get_scheduled_arrivals: in extended mode only, an end before
\* the start that is not yet extended is extended.
FixInvertedRange(use_extended_times, start_time, end_time) ==
    LET Fix(start_seconds, end_seconds) ==
            IF /\ use_extended_times
               /\ start_seconds # None
               /\ end_seconds # None
               /\ start_seconds[1] > end_seconds[1]
               /\ ~is_extended_time(end_time)
            THEN convert_to_extended_time(end_time)
            ELSE end_time
    IN  Fix(safe_gtfs_time_to_seconds(start_time), safe_gtfs_time_to_seconds(end_time))

\* A late-night start asked late at night left as given.
ServiceDay_Unconverted(now, start_time0) ==
    LET Context(ctx) ==
            IF start_time0 # None
            THEN IF is_extended_time(start_time0)
                 THEN [service_date |-> PrevDay(now.day),
                       start_time |-> start_time0,
                       use_extended_times |-> TRUE]
                 ELSE IF is_time_in_late_night_range(start_time0)
                      THEN IF ctx[3]
                           THEN [service_date |-> PrevDay(now.day),
                                 start_time |-> start_time0,
                                 use_extended_times |-> TRUE]
                           ELSE [service_date |-> now.day,
                                 start_time |-> start_time0,
                                 use_extended_times |-> FALSE]
                      ELSE [service_date |-> now.day,
                            start_time |-> start_time0,
                            use_extended_times |-> FALSE]
            ELSE [service_date |-> ctx[1], start_time |-> ctx[2],
                  use_extended_times |-> ctx[3]]
    IN  Context(get_gtfs_service_context(now))

\* Step 1 of get_scheduled_arrivals: the service date, the start of the
\* window and whether the query uses the previous day's extended times.
ServiceDay(now, start_time0) ==
    LET Context(ctx) ==
            IF start_time0 # None
            THEN IF is_extended_time(start_time0)
                 THEN [service_date |-> PrevDay(now.day),
                       start_time |-> start_time0,
                       use_extended_times |-> TRUE]
                 ELSE IF is_time_in_late_night_range(start_time0)
                      THEN IF ctx[3]
                           THEN [service_date |-> PrevDay(now.day),
                                 start_time |-> convert_to_extended_time(start_time0),
                                 use_extended_times |-> TRUE]
                           ELSE [service_date |-> now.day,
                                 start_time |-> start_time0,
                                 use_extended_times |-> FALSE]
                      ELSE [service_date |-> now.day,
                            start_time |-> start_time0,
                            use_extended_times |-> FALSE]
            ELSE [service_date |-> ctx[1], start_time |-> ctx[2],
                  use_extended_times |-> ctx[3]]
    IN  Context(get_gtfs_service_context(now))

\* Step 2: the default end, or a late-night end extended in extended mode.
WindowEnd(use_extended_times, end_time0) ==
    IF end_time0 = None THEN <<28, 0, 0>>
    ELSE IF use_extended_times /\ is_time_in_late_night_range(end_time0)
         THEN convert_to_extended_time(end_time0)
         ELSE end_time0

\* Steps 1-3 of get_scheduled_arrivals: the service date, the start and end
\* of the window and whether the query uses the previous day's service.
ArrivalsWindow(now, start_time0, end_time0) ==
    LET Window(s1) ==
            [service_date |-> s1.service_date,
             start_time |-> s1.start_time,
             end_time |-> FixInvertedRange(s1.use_extended_times, s1.start_time,
                                           WindowEnd(s1.use_extended_times, end_time0)),
             use_extended_times |-> s1.use_extended_times]
    IN  Window(ServiceDay(now, start_time0))

\* The arrivals query: the stop_times rows at the stop, of trips of an
\* active service (joined to their route), whose arrival_time lies in
\* [start_time, end_time] as text, in arrival order, at most limit of them.
ArrivalRows(d, stop_id, route_id, active_services, start_time, end_time, limit, ord) ==
    LET rows == { st \in d.stop_times :
                    /\ st.stop_id = stop_id
                    /\ TripOf(d, st.trip_id).service_id \in active_services
                    /\ TripOf(d, st.trip_id).route_id \in d.routes
                    /\ TextLeq(start_time, st.arrival_time)
                    /\ TextLeq(st.arrival_time, end_time)
                    /\ (route_id = NULL \/ TripOf(d, st.trip_id).route_id = route_id) }
        keyed == { << <<TextKey(st.arrival_time), TripRank(st.trip_id, ord)>>, st >>
                   : st \in rows }
    IN  Take(SortSet(keyed), limit)

get_scheduled_arrivals(d, now, stop_id, route_id, start_time0, end_time0, limit, ord) ==
    LET Query(w, active_services) ==
            LET seen == [window |-> w, active_services |-> active_services,
                         arrivals_queried |-> FALSE]
                Build(arrival_rows) ==
                    IF arrival_rows # <<>> /\ parse_gtfs_time(w.start_time).raised
                    THEN [kind |-> "raise", value |-> ValueError,
                          obs |-> [seen EXCEPT !.arrivals_queried = TRUE]]
                    ELSE [kind |-> "return",
                          value |->
                            [stop |-> stop_id,
                             arrivals |->
                               [ i \in DOMAIN arrival_rows |->
                                   [trip_id |-> arrival_rows[i].trip_id,
                                    route_id |-> TripOf(d, arrival_rows[i].trip_id).route_id,
                                    arrival_time |-> arrival_rows[i].arrival_time,
                                    minutes_until |->
                                      calculate_minutes_until(arrival_rows[i].arrival_time,
                                                              w.start_time)] ],
                             service_date |-> isoformat(w.service_date),
                             query_time |-> w.start_time,
                             count |-> Len(arrival_rows)],
                          obs |-> [seen EXCEPT !.arrivals_queried = TRUE]]
            IN  IF NoActiveServices(active_services)
                THEN [kind |-> "return",
                      value |-> [stop |-> stop_id, arrivals |-> <<>>,
                                 service_date |-> isoformat(w.service_date),
                                 query_time |-> w.start_time, count |-> 0],
                      obs |-> seen]
                ELSE Build(ArrivalRows(d, stop_id, route_id, active_services,
                                       w.start_time, w.end_time, limit, ord))
        Lookup(w) ==
            IF { s \in d.stops : s.stop_id = stop_id } = {}
            THEN [kind |-> "raise", value |-> ValueError,
                  obs |-> [window |-> w, active_services |-> {},
                           arrivals_queried |-> FALSE]]
            ELSE Query(w, get_active_service_ids(d, w.service_date))
    IN  Lookup(ArrivalsWindow(now, start_time0, end_time0))

\* ------------------------------------------------------- the search index
FileNotFoundError == "FileNotFoundError"
OperationalError == "OperationalError"

\* aiosqlite.connect(db_path): SQLite creates the file when there is none.
connect(target) == IF target = "absent" THEN "empty" ELSE target

\* SearchIndex(): the empty index, before _load (loaded: _load has run to
\* its end on the instance).
EmptyIndex(id) == [id |-> id, stops |-> {}, loaded |-> FALSE]

\* SearchIndex._load on a fresh instance: connects, then reads the stops
\* (routes and headsigns after them); the first SELECT raises on a file
\* without tables, and the instance stays as __init__ left it.
_load(instance, target, d) ==
    IF connect(target) = "database"
    THEN [raised |-> FALSE,
          instance |-> [instance EXCEPT !.stops = d.stops, !.loaded = TRUE]]
    ELSE [raised |-> TRUE, instance |-> instance]

\* SearchIndex.get_instance, from the cache `cached` over the file `target`
\* holding d: the cached instance when there is one; otherwise a new
\* instance is assigned to _instance and then loaded.  The result: whether
\* the call raised, the cache and the file after it.
get_instance(cached, target, d) ==
    LET Loaded(l) ==
            [raised |-> l.raised,
             index |-> [instance |-> << l.instance >>, created |-> cached.created + 1],
             target |-> connect(target)]
    IN  IF cached.instance # <<>>
        THEN [raised |-> FALSE, index |-> cached, target |-> target]
        ELSE Loaded(_load(EmptyIndex(cached.created + 1), target, d))

\* SearchIndex.invalidate
invalidate(cached) == [cached EXCEPT !.instance = <<>>]

\* ----------------------------------------------------------- the resolver
\* The fuzzy name score of a query against a stop (0: below every
\* threshold): the part of resolve_stop the model takes as given.
FuzzyScore(query, stop_id) ==
    IF query = "orig" /\ stop_id = "O" THEN 90
    ELSE IF query = "dest" /\ stop_id = "D" THEN 90
    ELSE IF query = "dst" /\ stop_id = "D" THEN 75
    ELSE IF query = "de" /\ stop_id = "D" THEN 62
    ELSE IF query = "de" /\ stop_id = "Z" THEN 61
    ELSE 0

confidence_from_score(score, match_type) ==
    IF match_type \in {"code_exact", "id_exact", "number_exact", "metro_alias"}
    THEN "exact"
    ELSE IF score >= 85 THEN "high"
    ELSE IF score >= 70 THEN "medium"
    ELSE "low"

\* resolve_stop(query, limit=1): the exact stop_id match (score 100), else the
\* fuzzy matches of score >= min_score, best score first; resolved iff the
\* best match is EXACT or HIGH.  best_match is <<>> or <<match>>.
resolve_stop(d, query) ==
    LET min_score == 60
        exact == { [stop_id |-> s.stop_id, score |-> 100, match_type |-> "id_exact"]
                   : s \in { r \in d.stops : r.stop_id = query } }
        fuzzy == { [stop_id |-> s.stop_id, score |-> FuzzyScore(query, s.stop_id),
                    match_type |-> "fuzzy_name"]
                   : s \in { r \in d.stops :
                               /\ r.stop_id # query
                               /\ FuzzyScore(query, r.stop_id) >= min_score } }
        Response(best, conf) ==
            [best_match |-> << [stop_id |-> best.stop_id, confidence |-> conf] >>,
             resolved |-> conf \in {"exact", "high"}]
        Best(best) == Response(best, confidence_from_score(best.score, best.match_type))
        Rank(matches) ==
            IF query = "" \/ matches = {}
            THEN [best_match |-> <<>>, resolved |-> FALSE]
            ELSE Best(CHOOSE m \in matches : \A o \in matches : o.score <= m.score)
    IN  Rank(exact \cup fuzzy)

\* A best match counted as resolved whatever its confidence.
_resolve_stop_for_planning_AnyMatch(d, query, raises) ==
    LET Info(result) ==
            IF result.best_match # <<>>
            THEN [query |-> query,
                  resolved_stop_id |-> result.best_match[1].stop_id,
                  confidence |-> result.best_match[1].confidence,
                  resolved |-> TRUE, error |-> NULL]
            ELSE [query |-> query, resolved_stop_id |-> NULL, confidence |-> NULL,
                  resolved |-> FALSE, error |-> "No matching stop found"]
    IN  IF raises
        THEN [query |-> query, resolved_stop_id |-> NULL, confidence |-> NULL,
              resolved |-> FALSE, error |-> "str(e)"]
        ELSE Info(resolve_stop(d, query))

\* _resolve_stop_for_planning: raises is TRUE when resolve_stop raises (the
\* search index cannot be loaded); every exception is caught here.
_resolve_stop_for_planning(d, query, raises) ==
    LET Info(result) ==
            IF result.best_match # <<>>
            THEN [query |-> query,
                  resolved_stop_id |-> result.best_match[1].stop_id,
                  confidence |-> result.best_match[1].confidence,
                  resolved |-> result.resolved, error |-> NULL]
            ELSE [query |-> query, resolved_stop_id |-> NULL, confidence |-> NULL,
                  resolved |-> FALSE, error |-> "No matching stop found"]
    IN  IF raises
        THEN [query |-> query, resolved_stop_id |-> NULL, confidence |-> NULL,
              resolved |-> FALSE, error |-> "str(e)"]
        ELSE Info(resolve_stop(d, query))

\* ------------------------------------------------------- the trip planner
TIME_WINDOW_HOURS == 2
MIN_TRANSFER_TIME_MINUTES == 3
MAX_TRANSFER_TIME_MINUTES == 30
MAX_WALKING_DISTANCE_METERS == 400

RECURSIVE Flatten(_)
Flatten(ss) == IF ss = <<>> THEN <<>> ELSE Head(ss) \o Flatten(Tail(ss))

\* f"{sec // 3600:02d}:{(sec % 3600) // 60:02d}:00"
FormatHM00(sec) == <<sec \div 3600, (sec % 3600) \div 60, 0>>

\* The rows of the direct query: one per trip visiting origin then
\* destination, of an active service, leaving the origin in the window; in
\* departure order, at most limit * 2 of them.
DirectRows(d, origin_stop_id, destination_stop_id, active_services, departure_time, end_time, limit, ord) ==
    LET rows == { od \in d.stop_times \X d.stop_times :
                    /\ od[1].trip_id = od[2].trip_id
                    /\ od[1].stop_id = origin_stop_id
                    /\ od[2].stop_id = destination_stop_id
                    /\ TripOf(d, od[1].trip_id).service_id \in active_services
                    /\ TripOf(d, od[1].trip_id).route_id \in d.routes
                    /\ TextLeq(departure_time, od[1].departure_time)
                    /\ TextLeq(od[1].departure_time, end_time)
                    /\ od[2].stop_sequence > od[1].stop_sequence }
        keyed == { << <<TextKey(od[1].departure_time), TripRank(od[1].trip_id, ord),
                        od[2].stop_sequence>>,
                      [trip_id |-> od[1].trip_id,
                       origin_departure |-> od[1].departure_time,
                       origin_seq |-> od[1].stop_sequence,
                       dest_arrival |-> od[2].arrival_time,
                       dest_seq |-> od[2].stop_sequence,
                       route_id |-> TripOf(d, od[1].trip_id).route_id] >>
                   : od \in rows }
    IN  Take(SortSet(keyed), limit * 2)

DirectItinerary(row, origin_stop_id, destination_stop_id) ==
    LET Build(duration) ==
            [legs |-> << [route_id |-> row.route_id, trip_id |-> row.trip_id,
                          from_stop_id |-> origin_stop_id,
                          to_stop_id |-> destination_stop_id,
                          departure_time |-> row.origin_departure,
                          arrival_time |-> row.dest_arrival,
                          duration_minutes |-> duration,
                          num_stops |-> row.dest_seq - row.origin_seq + 1] >>,
             departure_time |-> row.origin_departure,
             arrival_time |-> row.dest_arrival,
             total_duration_minutes |-> duration,
             num_transfers |-> 0,
             transfer_wait_minutes |-> <<>>,
             transfer_walk_meters |-> <<>>]
    IN  Build((gtfs_time_to_seconds(row.dest_arrival)
                 - gtfs_time_to_seconds(row.origin_departure)) \div 60)

RECURSIVE DirectLoop(_, _, _, _, _, _)
\* The loop over the rows: skip a (route, departure) key already seen, build
\* the itinerary, stop once limit itineraries are built.
DirectLoop(rows, seen_routes, itineraries, limit, origin_stop_id, destination_stop_id) ==
    IF rows = <<>> THEN itineraries
    ELSE LET Added(route_key, its) ==
                 IF Len(its) >= limit THEN its
                 ELSE DirectLoop(Tail(rows), seen_routes \cup {route_key},
                                 its, limit, origin_stop_id, destination_stop_id)
             Row(row, route_key) ==
                 IF route_key \in seen_routes
                 THEN DirectLoop(Tail(rows), seen_routes, itineraries, limit,
                                 origin_stop_id, destination_stop_id)
                 ELSE Added(route_key,
                            Append(itineraries,
                                   DirectItinerary(row, origin_stop_id,
                                                   destination_stop_id)))
         IN  Row(Head(rows), <<Head(rows).route_id, Head(rows).origin_departure>>)

\* _find_direct_itineraries.  queried: whether the trip query was issued;
\* rows: the rows it returned.
_find_direct_itineraries(d, origin_stop_id, destination_stop_id, departure_time, service_date, limit, ord) ==
    LET Loop(rows) ==
            [kind |-> "return",
             value |-> DirectLoop(rows, {}, <<>>, limit,
                                  origin_stop_id, destination_stop_id),
             queried |-> TRUE, rows |-> rows]
        Find(end_time, active_services) ==
            IF NoActiveServices(active_services)
            THEN [kind |-> "return", value |-> <<>>, queried |-> FALSE, rows |-> <<>>]
            ELSE Loop(DirectRows(d, origin_stop_id, destination_stop_id,
                                 active_services, departure_time, end_time,
                                 limit, ord))
    IN  IF parse_gtfs_time(departure_time).raised
        THEN [kind |-> "raise", value |-> <<>>, queried |-> FALSE, rows |-> <<>>]
        ELSE Find(FormatHM00(gtfs_time_to_seconds(departure_time)
                               + (TIME_WINDOW_HOURS * 3600)),
                  get_active_service_ids(d, service_date))

\* _get_outbound_segments: for every trip of an active service leaving the
\* origin in [departure_time, end_time], one segment per later stop of the
\* trip; ordered by origin departure, then stop sequence.
_get_outbound_segments(d, origin_stop_id, departure_time, end_time, active_services, ord) ==
    LET rows == { os \in d.stop_times \X d.stop_times :
                    /\ os[1].stop_id = origin_stop_id
                    /\ TripOf(d, os[1].trip_id).service_id \in active_services
                    /\ TextLeq(departure_time, os[1].departure_time)
                    /\ TextLeq(os[1].departure_time, end_time)
                    /\ os[2].trip_id = os[1].trip_id
                    /\ os[2].stop_sequence > os[1].stop_sequence
                    /\ TripOf(d, os[1].trip_id).route_id \in d.routes }
        keyed == { << <<TextKey(os[1].departure_time), os[2].stop_sequence,
                        TripRank(os[1].trip_id, ord), os[1].stop_sequence>>,
                      [trip_id |-> os[1].trip_id,
                       route_id |-> TripOf(d, os[1].trip_id).route_id,
                       origin_departure |-> os[1].departure_time,
                       origin_seq |-> os[1].stop_sequence,
                       xfer_stop_id |-> os[2].stop_id,
                       xfer_arrival |-> os[2].arrival_time,
                       xfer_seq |-> os[2].stop_sequence] >>
                   : os \in rows }
    IN  SortSet(keyed)

\* _get_inbound_segments: for every trip of an active service calling at the
\* destination, one segment per earlier stop of the trip whose departure is
\* <= latest_transfer_departure (as text); ordered by destination arrival,
\* then stop sequence descending.
_get_inbound_segments(d, destination_stop_id, active_services, latest_transfer_departure, ord) ==
    LET rows == { ds \in d.stop_times \X d.stop_times :
                    /\ ds[1].stop_id = destination_stop_id
                    /\ TripOf(d, ds[1].trip_id).service_id \in active_services
                    /\ ds[2].trip_id = ds[1].trip_id
                    /\ ds[2].stop_sequence < ds[1].stop_sequence
                    /\ TripOf(d, ds[1].trip_id).route_id \in d.routes
                    /\ TextLeq(ds[2].departure_time, latest_transfer_departure) }
        keyed == { << <<TextKey(ds[1].arrival_time), 0 - ds[2].stop_sequence,
                        TripRank(ds[1].trip_id, ord), ds[1].stop_sequence>>,
                      [trip_id |-> ds[1].trip_id,
                       route_id |-> TripOf(d, ds[1].trip_id).route_id,
                       xfer_stop_id |-> ds[2].stop_id,
                       xfer_departure |-> ds[2].departure_time,
                       xfer_seq |-> ds[2].stop_sequence,
                       dest_arrival |-> ds[1].arrival_time,
                       dest_seq |-> ds[1].stop_sequence] >>
                   : ds \in rows }
    IN  SortSet(keyed)

\* _get_stop_location: <<>> when the stop is unknown or has no latitude.
_get_stop_location(d, stop_id) ==
    LET row == { s \in d.stops : s.stop_id = stop_id /\ s.pos # <<>> }
    IN  IF row = {} THEN <<>>
        ELSE LET r == CHOOSE s \in row : TRUE
             IN  << [lat |-> r.pos[1], parent_station |-> r.parent_station] >>

\* haversine_distance between two stops of one meridian, whose latitudes the
\* model keeps in metres of arc: the great-circle distance is |lat1 - lat2|.
haversine_distance(lat1, lat2) == IF lat1 >= lat2 THEN lat1 - lat2 ELSE lat2 - lat1

\* Python iterates a set of stop ids in an order the program does not fix;
\* the model iterates it in StopOrder, ascending or descending.
StopOrder == <<"D", "N", "O", "P1", "P2", "W", "X", "X2", "Y", "Z">>

StopSeq(stops, sord) ==
    LET n == Len(StopOrder)
        all == [i \in 1 .. n |-> IF sord = "asc" THEN StopOrder[i]
                                 ELSE StopOrder[n + 1 - i]]
    IN  SelectSeq(all, LAMBDA x : x \in stops)

\* The matching without the test on the routes.
MatchSegments_AnyRoute(out_seg, in_segs, walk_seconds, walk_meters, walk_minutes) ==
    LET Point(in_seg, wait_minutes) ==
            IF MIN_TRANSFER_TIME_MINUTES <= wait_minutes
                 /\ wait_minutes <= MAX_TRANSFER_TIME_MINUTES
            THEN << [outbound |-> out_seg, inbound |-> in_seg,
                     wait_minutes |-> wait_minutes,
                     walk_meters |-> walk_meters,
                     walk_minutes |-> walk_minutes] >>
            ELSE <<>>
        From(effective_arrival_seconds) ==
            Flatten([ j \in DOMAIN in_segs |->
                Point(in_segs[j],
                      (gtfs_time_to_seconds(in_segs[j].xfer_departure)
                         - effective_arrival_seconds) \div 60) ])
    IN  From(gtfs_time_to_seconds(out_seg.xfer_arrival) + walk_seconds)

\* The transfer points of one outbound segment with the inbound segments
\* boarding at in_stop_id, after walk_minutes of walking: routes differ, and
\* the wait after the walk is within [MIN, MAX] minutes.
MatchSegments(out_seg, in_segs, walk_seconds, walk_meters, walk_minutes) ==
    LET Point(in_seg, wait_minutes) ==
            IF out_seg.route_id = in_seg.route_id THEN <<>>
            ELSE IF MIN_TRANSFER_TIME_MINUTES <= wait_minutes
                      /\ wait_minutes <= MAX_TRANSFER_TIME_MINUTES
                 THEN << [outbound |-> out_seg, inbound |-> in_seg,
                          wait_minutes |-> wait_minutes,
                          walk_meters |-> walk_meters,
                          walk_minutes |-> walk_minutes] >>
                 ELSE <<>>
        From(effective_arrival_seconds) ==
            Flatten([ j \in DOMAIN in_segs |->
                Point(in_segs[j],
                      (gtfs_time_to_seconds(in_segs[j].xfer_departure)
                         - effective_arrival_seconds) \div 60) ])
    IN  From(gtfs_time_to_seconds(out_seg.xfer_arrival) + walk_seconds)

\* The transfer points between the outbound segments alighting at
\* out_stop_id and the inbound segments boarding at in_stop_id.
MatchStops(outbound_segments, inbound_segments, out_stop_id, in_stop_id, walk_seconds, walk_meters, walk_minutes) ==
    LET From(in_segs) ==
            Flatten([ i \in DOMAIN outbound_segments |->
              IF outbound_segments[i].xfer_stop_id # out_stop_id THEN <<>>
              ELSE MatchSegments(outbound_segments[i], in_segs,
                                 walk_seconds, walk_meters, walk_minutes) ])
    IN  From(SelectSeq(inbound_segments, LAMBDA g : g.xfer_stop_id = in_stop_id))

HasParent(loc) == loc # <<>> /\ loc[1].parent_station # NULL

\* Strategy 1 of _find_transfer_points: for every outbound segment alighting
\* at a stop where an inbound segment boards, the inbound segments there.
SameStopTransfers(outbound_segments, inbound_segments, common_stops) ==
    Flatten([ i \in DOMAIN outbound_segments |->
      IF outbound_segments[i].xfer_stop_id \notin common_stops THEN <<>>
      ELSE MatchSegments(outbound_segments[i],
             SelectSeq(inbound_segments,
                       LAMBDA g : g.xfer_stop_id = outbound_segments[i].xfer_stop_id),
             0, 0, 0) ])

\* Strategy 2, the pairs of stops: for every inbound stop outside
\* common_stops that has a parent station, the outbound stops of that
\* station (<<outbound stop, inbound stop>>, in iteration order).
StationPairs(d, out_seq, in_seq, common_stops) ==
    LET Parent(loc) == loc[1].parent_station
        Outs(in_loc) ==
            SelectSeq(out_seq,
                      LAMBDA o : /\ HasParent(_get_stop_location(d, o))
                                 /\ Parent(_get_stop_location(d, o)) = Parent(in_loc))
        Pairs(in_stop_id, outs) == [ k \in DOMAIN outs |-> <<outs[k], in_stop_id>> ]
        Inbound(in_stop_id, in_loc) ==
            IF in_stop_id \in common_stops \/ ~HasParent(in_loc) THEN <<>>
            ELSE Pairs(in_stop_id, Outs(in_loc))
    IN  Flatten([ i \in DOMAIN in_seq |->
                    Inbound(in_seq[i], _get_stop_location(d, in_seq[i])) ])

\* One minute between platforms, recorded as two.
StationTransfers_OneMinute(outbound_segments, inbound_segments, station_pairs) ==
    [ k \in DOMAIN station_pairs |->
        MatchStops(outbound_segments, inbound_segments,
                   station_pairs[k][1], station_pairs[k][2], 1 * 60, 0, 2) ]

\* Strategy 2, the transfers of each pair: 2 minutes between platforms.
StationTransfers(outbound_segments, inbound_segments, station_pairs) ==
    [ k \in DOMAIN station_pairs |->
        MatchStops(outbound_segments, inbound_segments,
                   station_pairs[k][1], station_pairs[k][2], 2 * 60, 0, 2) ]

\* No stop recorded as matched.
StationMatched_None(station_pairs, station_found, side) == {}

\* The stops (side 1: outbound, 2: inbound) of the pairs that gave a transfer.
StationMatched(station_pairs, station_found, side) ==
    { station_pairs[k][side] : k \in { j \in DOMAIN station_pairs :
                                         station_found[j] # <<>> } }

\* The wait counted from the arrival, the walk not taken off.
ProximityTransfers_NoWalk(d, outbound_segments, inbound_segments, un_out, un_in) ==
    LET Walk(out_stop_id, in_stop_id, distance) ==
            IF distance > MAX_WALKING_DISTANCE_METERS THEN <<>>
            ELSE MatchStops(outbound_segments, inbound_segments,
                            out_stop_id, in_stop_id,
                            0, distance, (distance \div 80) + 1)
        Pair(out_stop_id, out_loc, in_stop_id, in_loc) ==
            IF in_loc = <<>> THEN <<>>
            ELSE Walk(out_stop_id, in_stop_id,
                      haversine_distance(out_loc[1].lat, in_loc[1].lat))
        Outbound(out_stop_id, out_loc) ==
            IF out_loc = <<>> THEN <<>>
            ELSE Flatten([ j \in DOMAIN un_in |->
                   Pair(out_stop_id, out_loc, un_in[j],
                        _get_stop_location(d, un_in[j])) ])
    IN  Flatten([ i \in DOMAIN un_out |->
                    Outbound(un_out[i], _get_stop_location(d, un_out[i])) ])

\* Strategy 3: the stops no earlier strategy matched, pairwise, within
\* MAX_WALKING_DISTANCE_METERS; 80 m per minute of walk plus one minute.
ProximityTransfers(d, outbound_segments, inbound_segments, un_out, un_in) ==
    LET Walk(out_stop_id, in_stop_id, distance) ==
            IF distance > MAX_WALKING_DISTANCE_METERS THEN <<>>
            ELSE MatchStops(outbound_segments, inbound_segments,
                            out_stop_id, in_stop_id,
                            ((distance \div 80) + 1) * 60, distance,
                            (distance \div 80) + 1)
        Pair(out_stop_id, out_loc, in_stop_id, in_loc) ==
            IF in_loc = <<>> THEN <<>>
            ELSE Walk(out_stop_id, in_stop_id,
                      haversine_distance(out_loc[1].lat, in_loc[1].lat))
        Outbound(out_stop_id, out_loc) ==
            IF out_loc = <<>> THEN <<>>
            ELSE Flatten([ j \in DOMAIN un_in |->
                   Pair(out_stop_id, out_loc, un_in[j],
                        _get_stop_location(d, un_in[j])) ])
    IN  Flatten([ i \in DOMAIN un_out |->
                    Outbound(un_out[i], _get_stop_location(d, un_out[i])) ])

\* Strategy 3, the pairs of stops that reach the loops over the segments:
\* both located, no further apart than MAX_WALKING_DISTANCE_METERS.
ProximityPairs(d, un_out, un_in) ==
    LET Near(out_loc, in_loc) ==
            /\ out_loc # <<>>
            /\ in_loc # <<>>
            /\ haversine_distance(out_loc[1].lat, in_loc[1].lat)
                  <= MAX_WALKING_DISTANCE_METERS
    IN  { pair \in { un_out[i] : i \in DOMAIN un_out } \X { un_in[j] : j \in DOMAIN un_in } :
            Near(_get_stop_location(d, pair[1]), _get_stop_location(d, pair[2])) }

\* A location kept in the memo only when the stop has one.
get_location_Located(d, memo, stop_id) ==
    IF stop_id \in memo.stop_locations THEN memo
    ELSE [stop_locations |-> IF _get_stop_location(d, stop_id) = <<>>
                             THEN memo.stop_locations
                             ELSE memo.stop_locations \cup {stop_id},
          lookups |-> Append(memo.lookups, stop_id)]

\* get_location: the store is asked (_get_stop_location) when the stop id
\* is not a key of stop_locations, and the answer, None too, is kept under
\* that key.  memo.lookups: the stop ids the store was asked for, in order.
get_location(d, memo, stop_id) ==
    IF stop_id \in memo.stop_locations THEN memo
    ELSE [stop_locations |-> memo.stop_locations \cup {stop_id},
          lookups |-> Append(memo.lookups, stop_id)]

RECURSIVE LocationLookups(_, _, _)
\* The memo after the get_location calls of one invocation, in order.
LocationLookups(d, memo, requests) ==
    IF requests = <<>> THEN memo
    ELSE LocationLookups(d, get_location(d, memo, Head(requests)), Tail(requests))

\* The get_location calls of strategy 2: every outbound stop, then every
\* inbound stop outside common_stops.
StationRequests(out_seq, in_seq, common_stops) ==
    out_seq \o SelectSeq(in_seq, LAMBDA x : x \notin common_stops)

\* The get_location calls of strategy 3: every unmatched outbound stop and,
\* when it has a location, every unmatched inbound stop after it.
ProximityRequests(d, un_out, un_in) ==
    Flatten([ i \in DOMAIN un_out |->
                << un_out[i] >> \o (IF _get_stop_location(d, un_out[i]) = <<>>
                                    THEN <<>> ELSE un_in) ])

\* What _find_transfer_points gives when it is not called.
NoPoints == [points |-> <<>>, proximity_pairs |-> {},
             location_requests |-> <<>>, location_lookups |-> <<>>]

\* _find_transfer_points: same-stop, then same-station, then proximity.
\* points: the list it returns; proximity_pairs: the pairs of stops strategy
\* 3 took to its loops over the segments; location_requests: its
\* get_location calls; location_lookups: those that went to the store, with
\* stop_locations empty at the start of the invocation.
_find_transfer_points(d, outbound_segments, inbound_segments, sord) ==
    LET Unmatched(earlier, unmatched_outbound, unmatched_inbound, requests) ==
            [points |-> earlier
                          \o ProximityTransfers(d, outbound_segments, inbound_segments,
                                                unmatched_outbound, unmatched_inbound),
             proximity_pairs |-> ProximityPairs(d, unmatched_outbound,
                                                unmatched_inbound),
             location_requests |->
                 requests \o ProximityRequests(d, unmatched_outbound,
                                               unmatched_inbound),
             location_lookups |->
                 LocationLookups(d, [stop_locations |-> {}, lookups |-> <<>>],
                                 requests \o ProximityRequests(d, unmatched_outbound,
                                                               unmatched_inbound)).lookups]
        Proximity(outbound_stops, inbound_stops, common_stops,
                  station_pairs, station_found) ==
            Unmatched(
                SameStopTransfers(outbound_segments, inbound_segments, common_stops)
                  \o Flatten(station_found),
                StopSeq((outbound_stops \ common_stops)
                          \ StationMatched(station_pairs, station_found, 1), sord),
                StopSeq((inbound_stops \ common_stops)
                          \ StationMatched(station_pairs, station_found, 2), sord),
                StationRequests(StopSeq(outbound_stops, sord),
                                StopSeq(inbound_stops, sord), common_stops))
        Station(outbound_stops, inbound_stops, common_stops, station_pairs) ==
            Proximity(outbound_stops, inbound_stops, common_stops, station_pairs,
                      StationTransfers(outbound_segments, inbound_segments,
                                       station_pairs))
        Common(outbound_stops, inbound_stops, common_stops) ==
            Station(outbound_stops, inbound_stops, common_stops,
                    StationPairs(d, StopSeq(outbound_stops, sord),
                                 StopSeq(inbound_stops, sord), common_stops))
        Stops(outbound_stops, inbound_stops) ==
            Common(outbound_stops, inbound_stops, outbound_stops \cap inbound_stops)
    IN  Stops({ outbound_segments[i].xfer_stop_id : i \in DOMAIN outbound_segments },
              { inbound_segments[i].xfer_stop_id : i \in DOMAIN inbound_segments })

\* num_transfers counted as the number of legs.
_build_transfer_itinerary_LegCount(transfer, origin_stop_id, destination_stop_id) ==
    LET out == transfer.outbound
        inb == transfer.inbound
        leg1 == [route_id |-> out.route_id, trip_id |-> out.trip_id,
                 from_stop_id |-> origin_stop_id, to_stop_id |-> out.xfer_stop_id,
                 departure_time |-> out.origin_departure,
                 arrival_time |-> out.xfer_arrival,
                 duration_minutes |->
                     (gtfs_time_to_seconds(out.xfer_arrival)
                        - gtfs_time_to_seconds(out.origin_departure)) \div 60,
                 num_stops |-> out.xfer_seq - out.origin_seq + 1]
        leg2 == [route_id |-> inb.route_id, trip_id |-> inb.trip_id,
                 from_stop_id |-> inb.xfer_stop_id, to_stop_id |-> destination_stop_id,
                 departure_time |-> inb.xfer_departure,
                 arrival_time |-> inb.dest_arrival,
                 duration_minutes |->
                     (gtfs_time_to_seconds(inb.dest_arrival)
                        - gtfs_time_to_seconds(inb.xfer_departure)) \div 60,
                 num_stops |-> inb.dest_seq - inb.xfer_seq + 1]
        total_duration == (gtfs_time_to_seconds(inb.dest_arrival)
                             - gtfs_time_to_seconds(out.origin_departure)) \div 60
    IN  [legs |-> << leg1, leg2 >>,
         departure_time |-> out.origin_departure,
         arrival_time |-> inb.dest_arrival,
         total_duration_minutes |-> total_duration,
         num_transfers |-> 2,
         transfer_wait_minutes |-> << transfer.wait_minutes >>,
         transfer_walk_meters |-> IF transfer.walk_meters > 0
                                  THEN << transfer.walk_meters >> ELSE <<>>]

\* _build_transfer_itinerary
_build_transfer_itinerary(transfer, origin_stop_id, destination_stop_id) ==
    LET out == transfer.outbound
        inb == transfer.inbound
        leg1 == [route_id |-> out.route_id, trip_id |-> out.trip_id,
                 from_stop_id |-> origin_stop_id, to_stop_id |-> out.xfer_stop_id,
                 departure_time |-> out.origin_departure,
                 arrival_time |-> out.xfer_arrival,
                 duration_minutes |->
                     (gtfs_time_to_seconds(out.xfer_arrival)
                        - gtfs_time_to_seconds(out.origin_departure)) \div 60,
                 num_stops |-> out.xfer_seq - out.origin_seq + 1]
        leg2 == [route_id |-> inb.route_id, trip_id |-> inb.trip_id,
                 from_stop_id |-> inb.xfer_stop_id, to_stop_id |-> destination_stop_id,
                 departure_time |-> inb.xfer_departure,
                 arrival_time |-> inb.dest_arrival,
                 duration_minutes |->
                     (gtfs_time_to_seconds(inb.dest_arrival)
                        - gtfs_time_to_seconds(inb.xfer_departure)) \div 60,
                 num_stops |-> inb.dest_seq - inb.xfer_seq + 1]
        total_duration == (gtfs_time_to_seconds(inb.dest_arrival)
                             - gtfs_time_to_seconds(out.origin_departure)) \div 60
    IN  [legs |-> << leg1, leg2 >>,
         departure_time |-> out.origin_departure,
         arrival_time |-> inb.dest_arrival,
         total_duration_minutes |-> total_duration,
         num_transfers |-> 1,
         transfer_wait_minutes |-> << transfer.wait_minutes >>,
         transfer_walk_meters |-> IF transfer.walk_meters > 0
                                  THEN << transfer.walk_meters >> ELSE <<>>]

RECURSIVE TransferLoop(_, _, _, _, _, _)
\* The loop over the sorted transfer points: skip a (departure, route 1,
\* route 2) key already seen, build the itinerary, stop at limit.
TransferLoop(tps, seen, itineraries, limit, origin_stop_id, destination_stop_id) ==
    IF tps = <<>> THEN itineraries
    ELSE LET Added(key, its) ==
                 IF Len(its) >= limit THEN its
                 ELSE TransferLoop(Tail(tps), seen \cup {key}, its, limit,
                                   origin_stop_id, destination_stop_id)
             Point(transfer, key) ==
                 IF key \in seen
                 THEN TransferLoop(Tail(tps), seen, itineraries, limit,
                                   origin_stop_id, destination_stop_id)
                 ELSE Added(key,
                            Append(itineraries,
                                   _build_transfer_itinerary(transfer, origin_stop_id,
                                                             destination_stop_id)))
         IN  Point(Head(tps), <<Head(tps).outbound.origin_departure,
                                Head(tps).outbound.route_id,
                                Head(tps).inbound.route_id>>)

\* The transfer points left in the order the strategies found them.
SortTransferPoints_Unsorted(tps) == tps

\* Step 5's sort: by destination arrival minus origin departure, stable.
SortTransferPoints(tps) ==
    LET Values(sorted) == [ i \in DOMAIN sorted |-> sorted[i][2] ]
    IN  Values(SortPairs([ i \in DOMAIN tps |->
                  << gtfs_time_to_seconds(tps[i].inbound.dest_arrival)
                       - gtfs_time_to_seconds(tps[i].outbound.origin_departure),
                     tps[i] >> ]))

\* Step 2 of _find_transfer_itineraries: the latest departure of a second
\* leg, MAX_TRANSFER_TIME_MINUTES after the last outbound arrival, with the
\* seconds dropped.
LatestTransferTime(outbound_segments) ==
    LET Latest(arrivals) ==
            FormatHM00((CHOOSE m \in arrivals : \A x \in arrivals : x <= m)
                         + (MAX_TRANSFER_TIME_MINUTES * 60))
    IN  Latest({ gtfs_time_to_seconds(outbound_segments[i].xfer_arrival)
                 : i \in DOMAIN outbound_segments })

\* _find_transfer_itineraries.  queries: the trip queries issued;
\* outbound_segments, inbound_segments: what they returned;
\* transfer_points, proximity_pairs: what _find_transfer_points returned and
\* the pairs of stops its third strategy considered.
_find_transfer_itineraries(d, origin_stop_id, destination_stop_id, departure_time, service_date, limit, ord, sord) ==
    LET Empty(queries, outbound_segments, inbound_segments, found) ==
            [kind |-> "return", value |-> <<>>, queries |-> queries,
             outbound_segments |-> outbound_segments,
             inbound_segments |-> inbound_segments,
             transfer_points |-> <<>>, proximity_pairs |-> found.proximity_pairs,
             location_requests |-> found.location_requests,
             location_lookups |-> found.location_lookups]
        Points(outbound_segments, inbound_segments, found) ==
            IF found.points = <<>>
            THEN Empty({"outbound", "inbound"}, outbound_segments, inbound_segments,
                       found)
            ELSE [kind |-> "return",
                  value |-> TransferLoop(SortTransferPoints(found.points), {}, <<>>,
                                         limit, origin_stop_id, destination_stop_id),
                  queries |-> {"outbound", "inbound"},
                  outbound_segments |-> outbound_segments,
                  inbound_segments |-> inbound_segments,
                  transfer_points |-> found.points,
                  proximity_pairs |-> found.proximity_pairs,
                  location_requests |-> found.location_requests,
                  location_lookups |-> found.location_lookups]
        Inbound(outbound_segments, inbound_segments) ==
            IF inbound_segments = <<>>
            THEN Empty({"outbound", "inbound"}, outbound_segments, <<>>, NoPoints)
            ELSE Points(outbound_segments, inbound_segments,
                        _find_transfer_points(d, outbound_segments,
                                              inbound_segments, sord))
        Outbound(active_services, outbound_segments) ==
            IF outbound_segments = <<>> THEN Empty({"outbound"}, <<>>, <<>>, NoPoints)
            ELSE Inbound(outbound_segments,
                         _get_inbound_segments(d, destination_stop_id, active_services,
                                               LatestTransferTime(outbound_segments),
                                               ord))
        Services(end_time, active_services) ==
            IF NoActiveServices(active_services) THEN Empty({}, <<>>, <<>>, NoPoints)
            ELSE Outbound(active_services,
                          _get_outbound_segments(d, origin_stop_id, departure_time,
                                                 end_time, active_services, ord))
    IN  IF parse_gtfs_time(departure_time).raised
        THEN [kind |-> "raise", value |-> <<>>, queries |-> {},
              outbound_segments |-> <<>>, inbound_segments |-> <<>>,
              transfer_points |-> <<>>, proximity_pairs |-> {},
              location_requests |-> <<>>, location_lookups |-> <<>>]
        ELSE Services(FormatHM00(gtfs_time_to_seconds(departure_time)
                                   + (TIME_WINDOW_HOURS * 3600)),
                      get_active_service_ids(d, service_date))

\* The combined list left in the order of concatenation.
SortItineraries_Unsorted(its) == its

\* Python's list.sort(key=total_duration_minutes): stable, ascending.
SortItineraries(its) ==
    LET Values(sorted) == [ i \in DOMAIN sorted |-> sorted[i][2] ]
    IN  Values(SortPairs([ i \in DOMAIN its |->
                             << its[i].total_duration_minutes, its[i] >> ]))

\* The transfer itineraries taken only when there is no direct one.
AllItineraries_DirectFirst(direct_itineraries, transfer_itineraries) ==
    IF direct_itineraries # <<>> THEN direct_itineraries ELSE transfer_itineraries

\* all_itineraries = direct_itineraries + transfer_itineraries
AllItineraries(direct_itineraries, transfer_itineraries) ==
    direct_itineraries \o transfer_itineraries

\* The service date taken from the late-night context, as the arrivals
\* path takes it.
PlanServiceDate_LateNight(now) == get_gtfs_service_context(now)[1]

\* service_date = now.date()
PlanServiceDate(now) == now.day

NoFinders == [direct_called |-> FALSE, transfer_called |-> FALSE,
              finder_dates |-> {}, trip_queries |-> {}, direct_rows |-> <<>>,
              outbound_segments |-> <<>>, inbound_segments |-> <<>>,
              transfer_points |-> <<>>, proximity_pairs |-> {},
              location_requests |-> <<>>, location_lookups |-> <<>>,
              direct_itineraries |-> <<>>, transfer_itineraries |-> <<>>]

\* get_db(db_path): raises when there is no file at the path; otherwise a
\* connection to it.
get_db(target) ==
    IF target = "absent" THEN [raised |-> TRUE, value |-> FileNotFoundError]
    ELSE [raised |-> FALSE, value |-> target]

\* The instance a resolve_stop call works on (none: the query is blank and
\* the call returns before SearchIndex.get_instance).
InstanceOf(g) ==
    IF g.index.instance = <<>> THEN EmptyIndex(0) ELSE g.index.instance[1]

\* resolve_stop's use of the index: none for a blank query.
IndexFor(cached, target, d, query) ==
    IF query = "" THEN [raised |-> FALSE, index |-> cached, target |-> target]
    ELSE get_instance(cached, target, d)

\* plan_trip, over the database file (target: its state, d: its content) and
\* the cached search index.  departure_time0 is None when the caller gives
\* none.  The result also tells the sides on which resolve_stop raised, and
\* the cache and the file after the call.
plan_trip(d, target, cached, now, origin, destination, departure_time0, limit, ord, sord) ==
    LET Respond(response, service_date, direct, transfer, itineraries) ==
            [kind |-> "return",
             value |-> [response EXCEPT
                          !.itineraries = itineraries,
                          !.count = Len(itineraries),
                          !.success = Len(itineraries) > 0,
                          !.error = IF itineraries # <<>> THEN NULL
                                    ELSE "No routes found"],
             obs |-> [direct_called |-> TRUE, transfer_called |-> TRUE,
                      finder_dates |-> {service_date},
                      trip_queries |-> (IF direct.queried THEN {"direct"} ELSE {})
                                         \cup transfer.queries,
                      direct_rows |-> direct.rows,
                      outbound_segments |-> transfer.outbound_segments,
                      inbound_segments |-> transfer.inbound_segments,
                      transfer_points |-> transfer.transfer_points,
                      proximity_pairs |-> transfer.proximity_pairs,
                      location_requests |-> transfer.location_requests,
                      location_lookups |-> transfer.location_lookups,
                      direct_itineraries |-> direct.value,
                      transfer_itineraries |-> transfer.value]]
        Combine(response, service_date, direct, transfer) ==
            Respond(response, service_date, direct, transfer,
                    Take(SortItineraries(AllItineraries(direct.value, transfer.value)),
                         limit))
        Transfer(response, service_date, departure_time, direct) ==
            Combine(response, service_date, direct,
                    _find_transfer_itineraries(
                        d, response.origin_resolution.resolved_stop_id,
                        response.destination_resolution.resolved_stop_id,
                        departure_time, service_date, limit, ord, sord))
        Raise(error, service_date) ==
            [kind |-> "raise", value |-> error,
             obs |-> [NoFinders EXCEPT !.direct_called = TRUE,
                                       !.finder_dates = {service_date}]]
        \* The direct finder: the departure time is parsed, then get_db,
        \* then the first query, which fails on a file without tables.
        Store(response, service_date, departure_time, conn) ==
            IF parse_gtfs_time(departure_time).raised
            THEN Raise(ValueError, service_date)
            ELSE IF conn.raised THEN Raise(conn.value, service_date)
            ELSE IF conn.value # "database" THEN Raise(OperationalError, service_date)
            ELSE Transfer(response, service_date, departure_time,
                          _find_direct_itineraries(
                              d, response.origin_resolution.resolved_stop_id,
                              response.destination_resolution.resolved_stop_id,
                              departure_time, service_date, limit, ord))
        Direct(response, service_date, departure_time, store) ==
            IF ~response.origin_resolution.resolved
                 \/ ~response.destination_resolution.resolved
            THEN [kind |-> "return", value |-> response, obs |-> NoFinders]
            ELSE Store(response, service_date, departure_time, get_db(store))
        Resolve(service_date, departure_time, g1, g2) ==
            Direct([origin_resolution |->
                      _resolve_stop_for_planning(InstanceOf(g1), origin, g1.raised),
                    destination_resolution |->
                      _resolve_stop_for_planning(InstanceOf(g2), destination, g2.raised),
                    itineraries |-> <<>>,
                    service_date |-> isoformat(service_date),
                    departure_date |-> isoformat(now.day),
                    query_time |-> departure_time,
                    count |-> 0, success |-> FALSE,
                    error |-> "Could not resolve origin or destination stop"],
                   service_date, departure_time, g2.target)
        Outcome(r, g1, g2) ==
            [kind |-> r.kind, value |-> r.value, obs |-> r.obs,
             raises |-> (IF g1.raised THEN {"origin"} ELSE {})
                          \cup (IF g2.raised THEN {"destination"} ELSE {}),
             index |-> g2.index, target |-> g2.target]
        Second(service_date, departure_time, g1, g2) ==
            Outcome(Resolve(service_date, departure_time, g1, g2), g1, g2)
        First(service_date, departure_time, g1) ==
            Second(service_date, departure_time, g1,
                   IndexFor(g1.index, g1.target, d, destination))
    IN  First(PlanServiceDate(now),
              IF departure_time0 = None THEN time_to_gtfs_format(now)
              ELSE departure_time0,
              IndexFor(cached, target, d, origin))

\* --------------------------------------------------------- the feed caches
\* GTFSRTConfig's defaults, in seconds.
cache_ttl_seconds == 30
i3_cache_ttl_seconds == 15

\* The three FeedCache singletons and the functions over them:
\* get_trip_updates over _trip_updates_cache, get_vehicle_positions over
\* _vehicle_positions_cache, _fetch_i3_data over _i3_cache.  The caches
\* share nothing and the three functions are the same code over their own
\* cache, so a run follows the callers of one of them.
Feeds == {"trip_updates", "vehicle_positions", "i3"}
Callers == 1 .. MaxCallers

\* The ttl the cache singleton of feed f is created with.
FeedTtl(f) == IF f = "i3" THEN i3_cache_ttl_seconds ELSE cache_ttl_seconds

\* FeedCache.__init__: no value, expired (the lock is feeds.lock).
FeedCache_init == [value |-> None, expires_at |-> 0]

\* FeedCache.get at the monotonic instant now.
FeedCache_get(cache, now) ==
    IF cache.value # None /\ now < cache.expires_at THEN cache.value ELSE None

\* FeedCache.set
FeedCache_set(value, now, ttl) == [value |-> value, expires_at |-> now + ttl]

\* FeedCache.clear
FeedCache_clear == [value |-> None, expires_at |-> 0]

\* The check before the lock: `cached` unless force_refresh.
CheckCache(cache, now, force_refresh) ==
    IF force_refresh THEN None ELSE FeedCache_get(cache, now)

\* No second look at the cache once the lock is held.
DoubleCheck_Skipped(cache, now, force_refresh) == None

\* The double-check after acquiring the lock.
DoubleCheck(cache, now, force_refresh) ==
    IF force_refresh THEN None ELSE FeedCache_get(cache, now)

\* A caller outside every call.
IdleCaller ==
    [pc |-> "idle", force_refresh |-> FALSE, ret |-> None, via |-> "none"]

\* The service of feed f before any call: api_key tells whether
\* STM_API_KEY is configured; lock is the caller holding the cache's lock
\* (0: free), fetched the number of upstream fetches that have succeeded.
FeedsIdle(f, api_key) ==
    [feed |-> f, api_key |-> api_key, ttl |-> FeedTtl(f), clock |-> 0,
     cache |-> FeedCache_init,
     lock |-> 0,
     fetched |-> 0,
     caller |-> [c \in Callers |-> IdleCaller]]

\* ---------------------------------------------------------------- actions
QueryDates == Days \cup {-1}

\* The server starts over an ingested database file, with no search index
\* cached and no ingest running (loader.feed and loader.before are set when
\* an ingest starts).
Init ==
    /\ db \in DBs
    /\ files = [target |-> "database", temp |-> "absent"]
    /\ loader = [pc |-> "idle", feed |-> [kind |-> "valid", content |-> db],
                 before |-> db, outcome |-> "none", cached |-> {}]
    /\ index = [instance |-> <<>>, created |-> 0]
    /\ op = "none"
    /\ req = None
    /\ res = None
    /\ obs = None
    /\ feeds = FeedsIdle("trip_updates", TRUE)

\* A call of get_active_service_ids(db, query_date), on an open connection
\* to the database.
GetActiveServiceIds ==
    \E query_date \in QueryDates :
        /\ op = "none"
        /\ files.target = "database"
        /\ op' = "get_active_service_ids"
        /\ req' = [query_date |-> query_date]
        /\ res' = [kind |-> "return", value |-> get_active_service_ids(db, query_date)]
        /\ obs' = None
        /\ UNCHANGED <<feeds, db, files, loader, index>>

\* The wall-clock instants of the calls.
Clock(days, hours, minutes, seconds) ==
    [day : days, hour : hours, minute : minutes, second : seconds]

ContextNows == Clock(Days, {0, 1, 3, 4, 5, 23}, {0, 59}, {0, 59})

\* A call of get_gtfs_service_context(dt) (it reads nothing of the store:
\* the calls are made on the base dataset).
GetServiceContext ==
    \E dt \in ContextNows :
        /\ op = "none"
        /\ db = Db0
        /\ op' = "get_gtfs_service_context"
        /\ req' = [dt |-> dt]
        /\ res' = [kind |-> "return", value |-> get_gtfs_service_context(dt)]
        /\ obs' = None
        /\ UNCHANGED <<feeds, db, files, loader, index>>

StartTimes == {None, <<1, 30, 0>>, <<3, 59, 59>>, <<4, 0, 0>>, <<8, 0, 0>>,
               <<14, 0, 0>>, <<24, 0, 0>>, <<25, 6, 0>>, <<8, 0>>}

EndTimes == {None, <<2, 0, 0>>, <<5, 0, 0>>, <<9, 0, 0>>, <<23, 0, 0>>,
             <<23, 59, 59>>, <<24, 0, 0>>, <<26, 0, 0>>, <<29, 0, 0>>}

\* The calls of get_scheduled_arrivals.  On the base dataset: every window
\* at the stop X, and every stop, route filter, limit and row order for two
\* windows.  On every dataset: the default window on every day.
ArrivalsInputs(d) ==
    (IF d = Db0
     THEN [now : Clock({1, 2}, {1, 3, 4, 10}, {30}, {0}), stop_id : {"X"},
           route_id : {NULL}, start_time : StartTimes, end_time : EndTimes,
           limit : {20}, ord : {"asc"}]
          \cup [now : Clock({1, 2}, {1, 8}, {30}, {0}), stop_id : {"X", "Q"},
                route_id : {NULL, "RB"}, start_time : {None, <<8, 0, 0>>},
                end_time : {None}, limit : 1 .. MaxLimit, ord : Orders]
     ELSE {})
    \cup [now : Clock(Days, {1, 8}, {30}, {0}), stop_id : {"X"},
          route_id : {NULL}, start_time : {None}, end_time : {None},
          limit : {20}, ord : {"asc"}]

\* A call of get_scheduled_arrivals, with the database in place.
GetScheduledArrivals ==
    /\ op = "none"
    /\ files.target = "database"
    /\ \E i \in ArrivalsInputs(db) :
         \E r \in { get_scheduled_arrivals(db, i.now, i.stop_id, i.route_id,
                                           i.start_time, i.end_time, i.limit, i.ord) } :
            /\ op' = "get_scheduled_arrivals"
            /\ req' = i
            /\ res' = [kind |-> r.kind, value |-> r.value]
            /\ obs' = r.obs
            /\ UNCHANGED <<feeds, db, files, loader, index>>

PlanQueries == {"O", "D", "orig", "dest", "dst", "de", "zzz", ""}

PlanTimes == {None, <<8, 0, 0>>, <<8, 0, 30>>, <<6, 0, 0>>, <<26, 0, 0>>, <<8, 0>>}

\* The calls of plan_trip.  On the base dataset: every pair of queries for
\* one departure, and every departure, instant, limit and row order for a
\* resolving pair of queries.  On every timetable: two departures with every
\* limit and row order.  On every calendar: every day.  On the datasets of
\* the ingest: a blank or exact origin and a destination of either dataset.
PlanInputs(d) ==
    (IF d = Db0
     THEN [now : Clock({1}, {8}, {0}, {0}), origin : PlanQueries,
           destination : PlanQueries, departure_time : {<<8, 0, 0>>},
           limit : {MaxLimit}, ord : {"asc"}, sord : {"asc"}]
          \cup [now : Clock(Days, {1, 8}, {0}, {0}), origin : {"O"},
                destination : {"dest"}, departure_time : PlanTimes,
                limit : 1 .. MaxLimit, ord : Orders, sord : Orders]
     ELSE {})
    \cup (IF d \in TtDBs
          THEN [now : Clock({1}, {8}, {0}, {0}), origin : {"O"},
                destination : {"dest"},
                departure_time : {<<8, 0, 0>>, <<8, 0, 30>>},
                limit : 1 .. MaxLimit, ord : Orders, sord : Orders]
          ELSE {})
    \cup (IF d \in CalDBs
          THEN [now : Clock(Days, {1, 8}, {0}, {0}), origin : {"O"},
                destination : {"dest"}, departure_time : {None, <<8, 0, 0>>},
                limit : {MaxLimit}, ord : {"asc"}, sord : {"asc"}]
          ELSE {})
    \cup (IF d \in {Feed1, Feed2}
          THEN [now : Clock({1}, {8}, {0}, {0}), origin : {"O", ""},
                destination : {"D", "NEW"}, departure_time : {<<8, 0, 0>>},
                limit : {MaxLimit}, ord : {"asc"}, sord : {"asc"}]
          ELSE {})

\* A call of plan_trip.  req records the arguments and the sides on which
\* resolve_stop raised.
PlanTrip ==
    /\ op = "none"
    /\ \E i \in PlanInputs(db) :
         \E r \in { plan_trip(db, files.target, index, i.now, i.origin, i.destination,
                              i.departure_time, i.limit, i.ord, i.sord) } :
            /\ r.index.created <= MaxInstances
            /\ op' = "plan_trip"
            /\ req' = [now |-> i.now, origin |-> i.origin,
                       destination |-> i.destination,
                       departure_time |-> i.departure_time, limit |-> i.limit,
                       ord |-> i.ord, sord |-> i.sord, raises |-> r.raises]
            /\ res' = [kind |-> r.kind, value |-> r.value]
            /\ obs' = r.obs
            /\ index' = r.index
            /\ files' = [files EXCEPT !.target = r.target]
            /\ UNCHANGED <<feeds, db, loader>>

\* A call of SearchIndex.get_instance(db_path).
GetInstance ==
    /\ op = "none"
    /\ \E r \in { get_instance(index, files.target, db) } :
         /\ r.index.created <= MaxInstances
         /\ op' = "get_instance"
         /\ req' = None
         /\ res' = IF r.raised THEN [kind |-> "raise", value |-> OperationalError]
                   ELSE [kind |-> "return", value |-> r.index.instance[1]]
         /\ obs' = None
         /\ index' = r.index
         /\ files' = [files EXCEPT !.target = r.target]
         /\ UNCHANGED <<feeds, db, loader>>

\* A call of SearchIndex.invalidate().
Invalidate ==
    /\ op = "none"
    /\ op' = "invalidate"
    /\ req' = None
    /\ res' = [kind |-> "return", value |-> None]
    /\ obs' = None
    /\ index' = invalidate(index)
    /\ UNCHANGED <<feeds, db, files, loader>>

\* The arguments of the calculate_minutes_until calls: valid GTFS times.
MinuteTimes == {<<7, 58, 30>>, <<8, 0, 0>>, <<8, 0, 59>>, <<8, 1, 30>>,
                <<8, 15, 0>>, <<25, 6, 0>>}

\* A call of calculate_minutes_until (it reads nothing of the store).
CalculateMinutesUntil ==
    \E arrival_time \in MinuteTimes, query_time \in MinuteTimes :
        /\ op = "none"
        /\ db = Db0
        /\ op' = "calculate_minutes_until"
        /\ req' = [arrival_time |-> arrival_time, query_time |-> query_time]
        /\ res' = [kind |-> "return",
                   value |-> calculate_minutes_until(arrival_time, query_time)]
        /\ obs' = None
        /\ UNCHANGED <<feeds, db, files, loader, index>>

\* The arguments of the convert_to_extended_time calls: "02:10:00",
\* "23:59:59", "00:00:00", "24:00:00", "25:30:00", "5:00", "invalid:00:00",
\* "-1:00:00", "-30:00:00".
ExtendTimes == {<<2, 10, 0>>, <<23, 59, 59>>, <<0, 0, 0>>, <<24, 0, 0>>,
                <<25, 30, 0>>, <<5, 0>>, <<NaP, 0, 0>>, <<-1, 0, 0>>,
                <<-30, 0, 0>>}

\* A call of convert_to_extended_time, and a second call on its result.
ConvertToExtendedTime ==
    \E time_str \in ExtendTimes :
        \E once \in { convert_to_extended_time(time_str) } :
            /\ op = "none"
            /\ db = Db0
            /\ op' = "convert_to_extended_time"
            /\ req' = [time_str |-> time_str]
            /\ res' = [kind |-> "return", value |-> once,
                       again |-> convert_to_extended_time(once)]
            /\ obs' = None
            /\ UNCHANGED <<feeds, db, files, loader, index>>

\* ------------------------------------------------------------ the loader
\* The loader runs beside the server.  A call of the server is one step, and
\* op, req, res and obs are the record of that call in the state it ran in:
\* the loader's steps are taken between the calls (op = "none"), which
\* orders the same steps of both without leaving any interleaving out.
\* What `stm-mcp ingest` is pointed at, over the installed dataset d: a path
\* that does not exist, a feed the load rejects, a feed that loads.
GtfsPaths(d) ==
    IF d = Feed1
    THEN [kind : {"missing", "invalid", "valid"}, content : {Feed2}]
    ELSE {}

\* GTFSLoader.ingest up to the open temp database: a missing gtfs_path
\* raises before anything is touched; otherwise a stale temp file is
\* removed and aiosqlite.connect creates the temp database.
IngestStart ==
    /\ op = "none"
    /\ loader.pc = "idle"
    /\ \E gtfs_path \in GtfsPaths(db) :
         IF gtfs_path.kind = "missing"
         THEN /\ loader' = [pc |-> "idle", feed |-> gtfs_path, before |-> db,
                            outcome |-> "failed", cached |-> {}]
              /\ UNCHANGED files
         ELSE /\ loader' = [pc |-> "loading", feed |-> gtfs_path,
                            before |-> db, outcome |-> "none", cached |-> {}]
              /\ files' = [files EXCEPT !.temp = "present"]
    /\ UNCHANGED <<feeds, db, index, op, req, res, obs>>

\* The schema, the tables, the indexes and the integrity check, into the
\* temp database; the connection is closed.  A rejected feed raises: the
\* handler removes the temp file and raises again.
IngestLoad ==
    /\ op = "none"
    /\ loader.pc = "loading"
    /\ IF loader.feed.kind = "invalid"
       THEN /\ loader' = [loader EXCEPT !.pc = "idle", !.outcome = "failed"]
            /\ files' = [files EXCEPT !.temp = "absent"]
       ELSE /\ loader' = [loader EXCEPT !.pc = "loaded"]
            /\ UNCHANGED files
    /\ UNCHANGED <<feeds, db, index, op, req, res, obs>>

\* "if self.db_path.exists(): self.db_path.unlink()"
IngestUnlink ==
    /\ op = "none"
    /\ loader.pc = "loaded"
    /\ loader' = [loader EXCEPT !.pc = "unlinked"]
    /\ files' = [files EXCEPT !.target = "absent"]
    /\ UNCHANGED <<feeds, db, index, op, req, res, obs>>

\* "temp_db.rename(self.db_path)": the temp database becomes the database
\* (over whatever file is at the path), and ingest returns.  loader.cached
\* records the index instance cached at that moment.
IngestRename ==
    /\ op = "none"
    /\ loader.pc = "unlinked"
    /\ loader' = [loader EXCEPT
                    !.pc = "idle", !.outcome = "ok",
                    !.cached = { index.instance[i].id : i \in DOMAIN index.instance }]
    /\ files' = [target |-> "database", temp |-> "absent"]
    /\ db' = loader.feed.content
    /\ UNCHANGED <<feeds, index, op, req, res, obs>>


\* The caller takes the result; the service is idle until the next call
\* (every call is request-scoped: nothing of it outlives its result).
Return ==
    /\ op # "none"
    /\ op' = "none"
    /\ req' = None
    /\ res' = None
    /\ obs' = None
    /\ UNCHANGED <<feeds, db, files, loader, index>>

Next ==
    \/ Return
    \/ GetActiveServiceIds
    \/ GetServiceContext
    \/ GetScheduledArrivals
    \/ PlanTrip
    \/ GetInstance
    \/ Invalidate
    \/ CalculateMinutesUntil
    \/ ConvertToExtendedTime
    \/ IngestStart
    \/ IngestLoad
    \/ IngestUnlink
    \/ IngestRename

Spec == Init /\ [][Next]_vars

\* The caller's result: it leaves the call through the return `via`.
Returned(c, value, via) ==
    [feeds.caller EXCEPT ![c].pc = "done", ![c].ret = value, ![c].via = via]

\* get_trip_updates / get_vehicle_positions / _fetch_i3_data up to the
\* lock: no key, a cached value, or on to `async with cache.lock`.
FeedCall ==
    \E c \in Callers, force_refresh \in BOOLEAN :
        /\ feeds.caller[c].pc = "idle"
        /\ \E called \in { [feeds.caller EXCEPT ![c].force_refresh = force_refresh] },
              cached \in { CheckCache(feeds.cache, feeds.clock, force_refresh) } :
             feeds' = [feeds EXCEPT !.caller =
                         IF ~feeds.api_key
                         THEN [called EXCEPT ![c].pc = "done", ![c].via = "no_key"]
                         ELSE IF cached # None
                         THEN [called EXCEPT ![c].pc = "done", ![c].ret = cached,
                                             ![c].via = "cache"]
                         ELSE [called EXCEPT ![c].pc = "lock"]]
        /\ UNCHANGED <<db, files, loader, index, op, req, res, obs>>

\* The caller gets the lock: the double-check returns the cached value and
\* releases the lock, or the fetch starts with the lock held.
FeedAcquire ==
    \E c \in Callers :
        /\ feeds.caller[c].pc = "lock"
        /\ feeds.lock = 0
        /\ \E cached \in { DoubleCheck(feeds.cache, feeds.clock,
                                       feeds.caller[c].force_refresh) } :
             feeds' = IF cached # None
                      THEN [feeds EXCEPT !.caller = Returned(c, cached, "double_check")]
                      ELSE [feeds EXCEPT !.caller[c].pc = "fetch", !.lock = c]
        /\ UNCHANGED <<db, files, loader, index, op, req, res, obs>>

\* The upstream fetch succeeds: cache.set(data), return data, lock released.
FeedFetched ==
    \E c \in Callers :
        /\ feeds.caller[c].pc = "fetch"
        /\ feeds.fetched < MaxFetches
        /\ \E data \in { << feeds.fetched + 1 >> } :
             feeds' = [feeds EXCEPT
                         !.cache = FeedCache_set(data, feeds.clock, feeds.ttl),
                         !.lock = 0,
                         !.fetched = @ + 1,
                         !.caller = Returned(c, data, "fetch")]
        /\ UNCHANGED <<db, files, loader, index, op, req, res, obs>>

\* The upstream fetch raises: logged, None returned, lock released.
FeedFailed ==
    \E c \in Callers :
        /\ feeds.caller[c].pc = "fetch"
        /\ feeds' = [feeds EXCEPT !.lock = 0,
                                  !.caller = Returned(c, None, "error")]
        /\ UNCHANGED <<db, files, loader, index, op, req, res, obs>>

\* The caller takes the result.
FeedReturn ==
    \E c \in Callers :
        /\ feeds.caller[c].pc = "done"
        /\ feeds' = [feeds EXCEPT !.caller[c] = IdleCaller]
        /\ UNCHANGED <<db, files, loader, index, op, req, res, obs>>

\* clear_caches() / clear_cache(): synchronous, between any two steps.
ClearCaches ==
    /\ feeds.cache # FeedCache_clear
    /\ feeds' = [feeds EXCEPT !.cache = FeedCache_clear]
    /\ UNCHANGED <<db, files, loader, index, op, req, res, obs>>

\* time.monotonic() advances, by the shorter of the two ttls.
Tick ==
    /\ feeds.clock + i3_cache_ttl_seconds <= MaxClock
    /\ feeds' = [feeds EXCEPT !.clock = @ + i3_cache_ttl_seconds]
    /\ UNCHANGED <<db, files, loader, index, op, req, res, obs>>

\* The service of one feed in a server started over the installed feed,
\* with or without an API key.
FeedInit ==
    /\ db = Feed1
    /\ files = [target |-> "database", temp |-> "absent"]
    /\ loader = [pc |-> "idle", feed |-> [kind |-> "valid", content |-> db],
                 before |-> db, outcome |-> "none", cached |-> {}]
    /\ index = [instance |-> <<>>, created |-> 0]
    /\ op = "none"
    /\ req = None
    /\ res = None
    /\ obs = None
    /\ feeds \in { FeedsIdle(f, api_key) : f \in Feeds, api_key \in BOOLEAN }

FeedNext ==
    \/ FeedCall
    \/ FeedAcquire
    \/ FeedFetched
    \/ FeedFailed
    \/ FeedReturn
    \/ ClearCaches
    \/ Tick

FeedSpec == FeedInit /\ [][FeedNext]_vars

\* ================================================================ claims
Itineraries == res.value.itineraries

PlanReturned == op = "plan_trip" /\ res.kind = "return"

BothResolved ==
    /\ res.value.origin_resolution.resolved
    /\ res.value.destination_resolution.resolved

\* C1: every transfer point _find_transfer_points produced, under each of
\* the three strategies, joins two different routes with a wait of 3 to 30
\* minutes; so does every 2-leg itinerary plan_trip returns.
C1_TransferInvariant ==
    PlanReturned =>
        /\ \A i \in DOMAIN obs.transfer_points :
             LET tp == obs.transfer_points[i]
             IN  /\ tp.outbound.route_id # tp.inbound.route_id
                 /\ 3 <= tp.wait_minutes /\ tp.wait_minutes <= 30
        /\ \A i \in DOMAIN Itineraries :
             LET it == Itineraries[i]
             IN  Len(it.legs) = 2 =>
                   /\ it.legs[1].route_id # it.legs[2].route_id
                   /\ it.transfer_wait_minutes # <<>>
                   /\ 3 <= it.transfer_wait_minutes[1]
                   /\ it.transfer_wait_minutes[1] <= 30

\* A call that found a same-stop, a same-station and a proximity transfer
\* point and returned a 2-leg itinerary.
C1_Witness ==
    /\ PlanReturned
    /\ \E i, j, k \in DOMAIN obs.transfer_points :
         /\ obs.transfer_points[i].walk_minutes = 0
         /\ obs.transfer_points[j].walk_minutes = 2
         /\ obs.transfer_points[k].walk_meters > 0
    /\ \E i \in DOMAIN Itineraries : Len(Itineraries[i].legs) = 2

SideFails(query, side) ==
    LET Fails(r) ==
            \/ r.best_match = <<>>
            \/ r.best_match[1].confidence \notin {"exact", "high"}
    IN  side \in req.raises
          \/ Fails(resolve_stop(InstanceOf([index |-> index]), query))

\* C3: when the resolution of the origin or of the destination fails,
\* plan_trip returns (does not raise) success=false, no itineraries, count 0
\* and an error message, the failing side has resolved=false, and no finder
\* is invoked.
C3_ResolutionFailure ==
    (op = "plan_trip"
       /\ (SideFails(req.origin, "origin") \/ SideFails(req.destination, "destination")))
    => /\ res.kind = "return"
       /\ res.value.success = FALSE
       /\ res.value.itineraries = <<>>
       /\ res.value.count = 0
       /\ res.value.error = "Could not resolve origin or destination stop"
       /\ (SideFails(req.origin, "origin")
             => ~res.value.origin_resolution.resolved)
       /\ (SideFails(req.destination, "destination")
             => ~res.value.destination_resolution.resolved)
       /\ ~obs.direct_called
       /\ ~obs.transfer_called

\* The origin resolves and the destination's best match is only Medium.
C3_Witness ==
    /\ op = "plan_trip"
    /\ res.kind = "return"
    /\ res.value.origin_resolution.resolved
    /\ res.value.destination_resolution.confidence = "medium"
    /\ res.value.success = FALSE

\* C4: with limit >= 1 and both stops resolved, count is the number of
\* itineraries returned, at most limit; success is true exactly when there
\* is one; error is "No routes found" exactly when there is none, and null
\* otherwise.
C4_ResponseConsistent ==
    (PlanReturned /\ req.limit >= 1 /\ BothResolved)
    => /\ res.value.count = Len(Itineraries)
       /\ Len(Itineraries) <= req.limit
       /\ res.value.success = (Len(Itineraries) > 0)
       /\ (res.value.error = "No routes found") = (Len(Itineraries) = 0)
       /\ (Len(Itineraries) > 0 => res.value.error = NULL)

\* The finders together built more than limit itineraries, and limit were
\* returned.
C4_Witness ==
    /\ PlanReturned
    /\ BothResolved
    /\ Len(Itineraries) = req.limit
    /\ Len(obs.direct_itineraries) + Len(obs.transfer_itineraries) > req.limit

\* The calendar services whose weekday flag is set on the date and whose
\* range contains it; the services added, and removed, on exactly that date.
CalendarMatches(date) ==
    { c.service_id : c \in
        { r \in db.calendar :
            /\ r.days[Weekday(date) + 1] = 1
            /\ r.start_date <= date_to_gtfs_format(date)
            /\ date_to_gtfs_format(date) <= r.end_date } }

AddedOn(date) ==
    { e.service_id : e \in
        { r \in db.calendar_dates :
            r.date = date_to_gtfs_format(date) /\ r.exception_type = 1 } }

RemovedOn(date) ==
    { e.service_id : e \in
        { r \in db.calendar_dates :
            r.date = date_to_gtfs_format(date) /\ r.exception_type = 2 } }

\* C5: get_active_service_ids(date) is (B union A) minus R: B the calendar
\* matches of the date, A the services added and R the services removed by
\* an exception on exactly that date.
C5_ActiveServices ==
    op = "get_active_service_ids" =>
        res.value = (CalendarMatches(req.query_date) \cup AddedOn(req.query_date))
                      \ RemovedOn(req.query_date)

\* A date on which a service without calendar row is active by an Added
\* exception and a weekday-active service is inactive by a Removed one.
C5_Witness ==
    /\ op = "get_active_service_ids"
    /\ "HOL" \in res.value
    /\ "HOL" \notin { c.service_id : c \in db.calendar }
    /\ "WK" \in CalendarMatches(req.query_date)
    /\ "WK" \notin res.value

\* C6: get_gtfs_service_context gives (previous day, hour + 24, true) when
\* the hour is below 4 and (same day, same time, false) from 04:00:00 on;
\* either way the result names the instant it was given.
C6_ServiceContext ==
    op = "get_gtfs_service_context" =>
        LET dt == req.dt
            r == res.value
        IN  /\ dt.hour < 4 =>
                 /\ r[1] = dt.day - 1
                 /\ r[2] = <<dt.hour + 24, dt.minute, dt.second>>
                 /\ r[3] = TRUE
            /\ dt.hour >= 4 =>
                 /\ r[1] = dt.day
                 /\ r[2] = <<dt.hour, dt.minute, dt.second>>
                 /\ r[3] = FALSE
            /\ r[1] * 86400 + r[2][1] * 3600 + r[2][2] * 60 + r[2][3]
                 = dt.day * 86400 + dt.hour * 3600 + dt.minute * 60 + dt.second

\* Midnight: 24:00:00 of the previous day.
C6_Witness ==
    /\ op = "get_gtfs_service_context"
    /\ req.dt.hour = 0 /\ req.dt.minute = 0 /\ req.dt.second = 0
    /\ res.value = <<req.dt.day - 1, <<24, 0, 0>>, TRUE>>

ArrivalsCalled == op = "get_scheduled_arrivals"

\* C7: with an explicit start_time, get_scheduled_arrivals uses (i)
\* yesterday and the start unchanged when it is >= 24:00:00; (ii) for a
\* start before 04:00:00, yesterday and the start plus 24 hours when the
\* current time is before 04:00, today and the start unchanged otherwise;
\* (iii) today and the start unchanged for a start in [04:00:00, 24:00:00).
C7_ExplicitStart ==
    (ArrivalsCalled /\ req.start_time # None /\ ~parse_gtfs_time(req.start_time).raised)
    => LET st == req.start_time
           w == obs.window
           today == req.now.day
       IN  /\ st[1] >= 24 =>
                w.service_date = today - 1 /\ w.start_time = st
           /\ st[1] < 4 =>
                IF req.now.hour < 4
                THEN /\ w.service_date = today - 1
                     /\ w.start_time = <<st[1] + 24, st[2], st[3]>>
                ELSE w.service_date = today /\ w.start_time = st
           /\ (4 <= st[1] /\ st[1] < 24) =>
                w.service_date = today /\ w.start_time = st
           /\ res.kind = "return" =>
                /\ res.value.service_date = isoformat(w.service_date)
                /\ res.value.query_time = w.start_time

\* start_time 25:06:00 asked at 10 in the morning: yesterday's service.
C7_Witness ==
    /\ ArrivalsCalled
    /\ req.start_time = <<25, 6, 0>>
    /\ req.now.hour = 10
    /\ res.kind = "return"
    /\ res.value.service_date = isoformat(req.now.day - 1)
    /\ res.value.query_time = <<25, 6, 0>>

\* start > end, for two times that parse.
Inverted(start_time, end_time) ==
    /\ ~parse_gtfs_time(start_time).raised
    /\ ~parse_gtfs_time(end_time).raised
    /\ gtfs_time_to_seconds(start_time) > gtfs_time_to_seconds(end_time)

\* The end of the window as the caller gave it ("28:00:00" by default).
GivenEnd == IF req.end_time = None THEN <<28, 0, 0>> ELSE req.end_time

\* C8: the end of the window is extended by 24 hours only in extended mode
\* and only when it is not already >= 24:00:00, and there the end of an
\* inverted window is extended; in non-extended mode the end is never
\* modified and an inverted window returns zero arrivals.
C8_InvertedWindow ==
    ArrivalsCalled =>
        LET w == obs.window
        IN  /\ w.end_time # GivenEnd =>
                 /\ w.use_extended_times
                 /\ GivenEnd[1] < 24
                 /\ w.end_time = <<GivenEnd[1] + 24, GivenEnd[2], GivenEnd[3]>>
            /\ (w.use_extended_times /\ Inverted(w.start_time, GivenEnd)
                  /\ GivenEnd[1] < 24) =>
                 w.end_time = <<GivenEnd[1] + 24, GivenEnd[2], GivenEnd[3]>>
            /\ ~w.use_extended_times =>
                 /\ w.end_time = GivenEnd
                 /\ (Inverted(w.start_time, w.end_time) /\ res.kind = "return") =>
                      res.value.arrivals = <<>> /\ res.value.count = 0

\* The window 25:06:00 .. 05:00:00 becomes 25:06:00 .. 29:00:00.
C8_Witness ==
    /\ ArrivalsCalled
    /\ req.start_time = <<25, 6, 0>>
    /\ req.end_time = <<5, 0, 0>>
    /\ obs.window.use_extended_times
    /\ obs.window.end_time = <<29, 0, 0>>
    /\ res.kind = "return"

\* C9: plan_trip gives both finders today's date as the service date and
\* reports it, at every hour and for every departure_time: every leg it
\* returns is a trip of a service active today.
C9_ServiceDateIsToday ==
    op = "plan_trip" =>
        /\ obs.finder_dates \subseteq {req.now.day}
        /\ res.kind = "return" =>
             /\ res.value.service_date = isoformat(req.now.day)
             /\ \A i \in DOMAIN Itineraries :
                  \A k \in DOMAIN Itineraries[i].legs :
                    TripOf(db, Itineraries[i].legs[k].trip_id).service_id
                      \in get_active_service_ids(db, req.now.day)

\* A call before 04:00 on a Monday that finds Monday's trips.
C9_Witness ==
    /\ PlanReturned
    /\ req.now.hour < 4
    /\ Weekday(req.now.day) = 0
    /\ obs.finder_dates = {req.now.day}
    /\ res.value.success
    /\ res.value.service_date = isoformat(req.now.day)

\* The departure time plan_trip works with.
PlanDeparture ==
    IF req.departure_time = None THEN time_to_gtfs_format(req.now)
    ELSE req.departure_time

\* C10: with no active service on the service date nothing is raised:
\* get_scheduled_arrivals, for an existing stop, returns zero arrivals and
\* count 0; the direct and the transfer finder each return an empty list
\* and issue no trip query.
C10_NoActiveServices ==
    /\ (ArrivalsCalled
          /\ req.stop_id \in { s.stop_id : s \in db.stops }
          /\ get_active_service_ids(db, obs.window.service_date) = {})
       => /\ res.kind = "return"
          /\ res.value.arrivals = <<>>
          /\ res.value.count = 0
    /\ (op = "plan_trip"
          /\ ~SideFails(req.origin, "origin")
          /\ ~SideFails(req.destination, "destination")
          /\ ~parse_gtfs_time(PlanDeparture).raised
          /\ \A date \in obs.finder_dates : get_active_service_ids(db, date) = {})
       => /\ res.kind = "return"
          /\ obs.direct_called /\ obs.transfer_called
          /\ obs.direct_itineraries = <<>>
          /\ obs.transfer_itineraries = <<>>
          /\ obs.trip_queries = {}

\* Both finders ran on a date without active service.
C10_Witness ==
    /\ PlanReturned
    /\ obs.direct_called /\ obs.transfer_called
    /\ get_active_service_ids(db, req.now.day) = {}
    /\ obs.finder_dates = {req.now.day}
    /\ res.value.itineraries = <<>>
    /\ res.value.error = "No routes found"

\* C11: a plan_trip call that reaches the store while the store is
\* unavailable (loading the search index to resolve a stop, or opening the
\* database for a finder) raises the storage failure; it does not return a
\* response object.
StoreReached == req.raises # {} \/ obs.direct_called

C11_StoreFailurePropagates ==
    (op = "plan_trip" /\ files.target # "database" /\ StoreReached) =>
        /\ res.kind = "raise"
        /\ res.value \in {FileNotFoundError, OperationalError}

\* C12 (as stated): calculate_minutes_until is the difference of the two
\* times in seconds, divided by 60 and truncated toward zero.
SecondsOf(t) == t[1] * 3600 + t[2] * 60 + t[3]

MinutesDiff == SecondsOf(req.arrival_time) - SecondsOf(req.query_time)

TruncatedMinutes(diff) ==
    IF diff >= 0
    THEN CHOOSE q \in 0 .. diff : q * 60 <= diff /\ diff < q * 60 + 60
    ELSE CHOOSE q \in diff .. 0 : q * 60 >= diff /\ diff > q * 60 - 60

C12_MinutesTruncated ==
    op = "calculate_minutes_until" => res.value = TruncatedMinutes(MinutesDiff)

\* C12 (amended): calculate_minutes_until is the floor of the difference in
\* seconds over 60: the greatest m with 60 m <= difference.  It is the
\* truncated quotient when the target is not earlier than the reference or
\* the difference is a whole number of minutes, and one less otherwise.
C12_MinutesFloor ==
    op = "calculate_minutes_until" =>
        /\ res.value * 60 <= MinutesDiff
        /\ MinutesDiff < res.value * 60 + 60
        /\ (MinutesDiff >= 0 \/ MinutesDiff % 60 = 0
              => res.value = TruncatedMinutes(MinutesDiff))
        /\ (MinutesDiff < 0 /\ MinutesDiff % 60 # 0
              => res.value = TruncatedMinutes(MinutesDiff) - 1)

C12_Witness ==
    /\ op = "calculate_minutes_until"
    /\ req.arrival_time = <<7, 58, 30>>
    /\ req.query_time = <<8, 0, 0>>
    /\ res.value = 0 - 2

\* C13: convert_to_extended_time applied twice gives what it gives applied
\* once; a time with hours < 24 gets exactly 24 hours added; an extended or
\* unparseable input comes back unchanged.
Parseable(t) == Len(t) = 3 /\ \A i \in 1 .. 3 : t[i] # NaP

C13_ConvertIdempotent ==
    op = "convert_to_extended_time" =>
        /\ res.again = res.value
        /\ (Parseable(req.time_str) /\ req.time_str[1] < 24
              => res.value = <<req.time_str[1] + 24, req.time_str[2], req.time_str[3]>>)
        /\ (~Parseable(req.time_str) \/ req.time_str[1] >= 24
              => res.value = req.time_str)

\* C14: at every instant the target path holds the complete previous
\* database or the complete new one, and after a failed ingest the previous
\* database is in place and the temp file is gone.
C14_AtomicReplace ==
    /\ files.target = "database"
    /\ db \in {loader.before, loader.feed.content}
    /\ (loader.outcome = "failed" =>
            /\ db = loader.before
            /\ files.temp = "absent")

\* C15: the first get_instance call after an ingest that completed while an
\* index instance was cached returns another instance, built from the newly
\* ingested database.
C15_IngestInvalidatesIndex ==
    (op = "get_instance" /\ loader.outcome = "ok" /\ loader.cached # {}
       /\ res.kind = "return") =>
        /\ res.value.id \notin loader.cached
        /\ res.value.stops = db.stops

\* The stops plan_trip resolved, and the services active on its service date
\* (the calendar matches and the additions, less the removals).
OriginId == res.value.origin_resolution.resolved_stop_id

DestinationId == res.value.destination_resolution.resolved_stop_id

PlanServices ==
    (CalendarMatches(req.now.day) \cup AddedOn(req.now.day)) \ RemovedOn(req.now.day)

ServiceOfTrip(trip_id) == (CHOOSE t \in db.trips : t.trip_id = trip_id).service_id

RouteOfTrip(trip_id) == (CHOOSE t \in db.trips : t.trip_id = trip_id).route_id

\* The (stop time at the origin, stop time at the destination) pairs of the
\* trips the direct finder is to consider: same trip, destination later in
\* the sequence, service active, departure within two hours of
\* departure_time, both ends included, to the second.
DirectEligible ==
    { od \in db.stop_times \X db.stop_times :
        /\ od[1].trip_id = od[2].trip_id
        /\ od[1].stop_id = OriginId
        /\ od[2].stop_id = DestinationId
        /\ od[2].stop_sequence > od[1].stop_sequence
        /\ ServiceOfTrip(od[1].trip_id) \in PlanServices
        /\ SecondsOf(PlanDeparture) <= SecondsOf(od[1].departure_time)
        /\ SecondsOf(od[1].departure_time)
             <= SecondsOf(PlanDeparture) + TIME_WINDOW_HOURS * 3600 }

DirectRan == PlanReturned /\ obs.direct_called

\* C16: the trips among the rows of the direct query are exactly the trips
\* that call at the origin and later at the destination, of an active
\* service, leaving the origin in [departure_time, departure_time + 2 h].
C16_DirectWindow ==
    DirectRan =>
        { obs.direct_rows[i].trip_id : i \in DOMAIN obs.direct_rows }
          = { od[1].trip_id : od \in DirectEligible }

\* The (route id, departure time) keys of the eligible trips.
DirectKeys ==
    { <<RouteOfTrip(od[1].trip_id), od[1].departure_time>> : od \in DirectEligible }

DirectKey(itinerary) == <<itinerary.legs[1].route_id, itinerary.departure_time>>

\* C17: for limit >= 1 the direct finder returns min(limit, K) itineraries,
\* K the number of (route id, departure time) keys of the eligible trips: one
\* itinerary per key, in ascending departure order.
C17_DirectCount ==
    (DirectRan /\ req.limit >= 1) =>
        LET its == obs.direct_itineraries
            K == Cardinality(DirectKeys)
        IN  /\ Len(its) = (IF req.limit <= K THEN req.limit ELSE K)
            /\ \A i \in DOMAIN its : DirectKey(its[i]) \in DirectKeys
            /\ \A i \in DOMAIN its : \A j \in DOMAIN its :
                 i < j => /\ DirectKey(its[i]) # DirectKey(its[j])
                          /\ SecondsOf(its[i].departure_time)
                               <= SecondsOf(its[j].departure_time)

\* The latest arrival of an outbound segment, in seconds.
LatestOutboundArrival ==
    LET arrivals == { SecondsOf(obs.outbound_segments[i].xfer_arrival)
                      : i \in DOMAIN obs.outbound_segments }
    IN  CHOOSE m \in arrivals : \A x \in arrivals : x <= m

\* C18: the inbound segments are exactly the (trip, upstream stop) pairs of
\* the active-service trips calling at the destination whose departure from
\* that stop is no later than the latest outbound arrival + 30 minutes.
C18_InboundBound ==
    (PlanReturned /\ "inbound" \in obs.trip_queries) =>
        { <<obs.inbound_segments[i].trip_id, obs.inbound_segments[i].xfer_stop_id,
            obs.inbound_segments[i].xfer_seq>> : i \in DOMAIN obs.inbound_segments }
          = { <<ud[1].trip_id, ud[1].stop_id, ud[1].stop_sequence>> : ud \in
                { p \in db.stop_times \X db.stop_times :
                    /\ p[2].stop_id = DestinationId
                    /\ ServiceOfTrip(p[2].trip_id) \in PlanServices
                    /\ p[1].trip_id = p[2].trip_id
                    /\ p[1].stop_sequence < p[2].stop_sequence
                    /\ SecondsOf(p[1].departure_time)
                         <= LatestOutboundArrival + MAX_TRANSFER_TIME_MINUTES * 60 } }

\* The transfer points of the call, and the stops of one.
TransferPoints == { obs.transfer_points[i] : i \in DOMAIN obs.transfer_points }

OutStop(tp) == tp.outbound.xfer_stop_id

InStop(tp) == tp.inbound.xfer_stop_id

StopRow(stop_id) == CHOOSE r \in db.stops : r.stop_id = stop_id

\* Two different stops with the same parent station.
SameStation(a, b) ==
    /\ a # b
    /\ StopRow(a).parent_station # NULL
    /\ StopRow(a).parent_station = StopRow(b).parent_station

\* Seconds from the outbound arrival to the inbound departure.
Connection(tp) ==
    SecondsOf(tp.inbound.xfer_departure) - SecondsOf(tp.outbound.xfer_arrival)

\* Metres between two located stops.
Distance(a, b) ==
    IF StopRow(a).pos[1] >= StopRow(b).pos[1]
    THEN StopRow(a).pos[1] - StopRow(b).pos[1]
    ELSE StopRow(b).pos[1] - StopRow(a).pos[1]

\* A same-station transfer: the wait counted from 2 minutes after the
\* arrival, walk_minutes 2, walk_meters 0.
StationPoint(tp) ==
    /\ tp.walk_minutes = 2
    /\ tp.walk_meters = 0
    /\ tp.wait_minutes * 60 <= Connection(tp) - 120
    /\ Connection(tp) - 120 < tp.wait_minutes * 60 + 60

\* A proximity transfer: the distance walked at 80 m per minute plus one
\* minute, the wait counted after the walk.
ProximityPoint(tp) ==
    /\ tp.walk_meters = Distance(OutStop(tp), InStop(tp))
    /\ (tp.walk_minutes - 1) * 80 <= tp.walk_meters
    /\ tp.walk_meters < tp.walk_minutes * 80
    /\ tp.wait_minutes * 60 <= Connection(tp) - tp.walk_minutes * 60
    /\ Connection(tp) - tp.walk_minutes * 60 < tp.wait_minutes * 60 + 60

\* C19 (as stated): every transfer point between two different stops of one
\* parent station is a same-station transfer (2 minutes added before the
\* wait, walk_minutes 2, walk_meters 0).
C19_SameStationAlways ==
    PlanReturned =>
        \A tp \in TransferPoints :
            SameStation(OutStop(tp), InStop(tp)) => StationPoint(tp)

\* C19 (amended): a transfer point between two different stops of one parent
\* station is a same-station transfer or, when the same-station strategy
\* found no transfer from its outbound stop nor to its inbound stop, a
\* proximity transfer over the distance between the two platforms.
C19_SameStationOrProximity ==
    PlanReturned =>
        \A tp \in TransferPoints :
            SameStation(OutStop(tp), InStop(tp)) =>
                \/ StationPoint(tp)
                \/ /\ ProximityPoint(tp)
                   /\ \A other \in TransferPoints :
                        (SameStation(OutStop(other), InStop(other))
                           /\ StationPoint(other))
                        => /\ OutStop(other) # OutStop(tp)
                           /\ InStop(other) # InStop(tp)

\* Both kinds in one call: a same-station transfer, and a transfer between
\* the platforms of another station by proximity (40 m, one minute).
C19_Witness ==
    /\ PlanReturned
    /\ \E tp \in TransferPoints :
         /\ SameStation(OutStop(tp), InStop(tp))
         /\ StationPoint(tp)
    /\ \E tp \in TransferPoints :
         /\ SameStation(OutStop(tp), InStop(tp))
         /\ ~StationPoint(tp)
         /\ tp.walk_minutes = 1
         /\ tp.walk_meters = 40

\* The stops where an outbound segment alights, where an inbound segment
\* boards, and the stops of both.
OutboundStops ==
    { obs.outbound_segments[i].xfer_stop_id : i \in DOMAIN obs.outbound_segments }

InboundStops ==
    { obs.inbound_segments[i].xfer_stop_id : i \in DOMAIN obs.inbound_segments }

CommonStops == OutboundStops \cap InboundStops

\* Both stops located and no further apart than the walking distance.
WithinWalk(a, b) ==
    /\ StopRow(a).pos # <<>>
    /\ StopRow(b).pos # <<>>
    /\ Distance(a, b) <= MAX_WALKING_DISTANCE_METERS

\* The transfer points of the same-station strategy.
StationPoints ==
    { tp \in TransferPoints :
        SameStation(OutStop(tp), InStop(tp)) /\ tp.walk_minutes = 2 /\ tp.walk_meters = 0 }

\* A pair matched by the same-stop strategy (one stop on both sides) or by
\* the same-station strategy (it gave a transfer point for the pair).
PairMatched(a, b) ==
    \/ a = b
    \/ \E tp \in StationPoints : OutStop(tp) = a /\ InStop(tp) = b

\* No pair of stops has transfer points of two strategies.
OneStrategyPerPair ==
    \A tp \in TransferPoints : \A other \in TransferPoints :
        (OutStop(tp) = OutStop(other) /\ InStop(tp) = InStop(other))
        => /\ tp.walk_minutes = other.walk_minutes
           /\ tp.walk_meters = other.walk_meters

TransferPointsRan == PlanReturned /\ obs.inbound_segments # <<>>

\* C20 (as stated): the proximity strategy considers a pair of stops exactly
\* when it is within 400 m and no earlier strategy matched the pair; no pair
\* has transfer points of two strategies.
C20_PairsPartitioned ==
    TransferPointsRan =>
        /\ \A a \in OutboundStops : \A b \in InboundStops :
             <<a, b>> \in obs.proximity_pairs
               <=> (WithinWalk(a, b) /\ ~PairMatched(a, b))
        /\ OneStrategyPerPair

\* C20 (amended): the proximity strategy considers a pair of stops exactly
\* when it is within 400 m, neither stop is common to both sides, and the
\* same-station strategy gave no transfer point from the outbound stop nor
\* to the inbound stop; no pair has transfer points of two strategies.
C20_StopsExcluded ==
    TransferPointsRan =>
        /\ \A a \in OutboundStops : \A b \in InboundStops :
             <<a, b>> \in obs.proximity_pairs
               <=> /\ WithinWalk(a, b)
                   /\ a \notin CommonStops
                   /\ b \notin CommonStops
                   /\ a \notin { OutStop(tp) : tp \in StationPoints }
                   /\ b \notin { InStop(tp) : tp \in StationPoints }
        /\ obs.proximity_pairs \subseteq OutboundStops \X InboundStops
        /\ OneStrategyPerPair

\* A pair within walking distance that no strategy matched is skipped (W to
\* X: X is a common stop), while another pair is considered (W to Y).
C20_Witness ==
    /\ TransferPointsRan
    /\ "W" \in OutboundStops
    /\ "X" \in InboundStops
    /\ WithinWalk("W", "X")
    /\ ~PairMatched("W", "X")
    /\ <<"W", "X">> \notin obs.proximity_pairs
    /\ <<"W", "Y">> \in obs.proximity_pairs

\* The de-duplication key and the total duration (seconds) of a transfer
\* point, and of a 2-leg itinerary.
PointKey(tp) ==
    <<tp.outbound.origin_departure, tp.outbound.route_id, tp.inbound.route_id>>

PointDuration(tp) ==
    SecondsOf(tp.inbound.dest_arrival) - SecondsOf(tp.outbound.origin_departure)

TransferKey(it) == <<it.departure_time, it.legs[1].route_id, it.legs[2].route_id>>

TransferDuration(it) == SecondsOf(it.arrival_time) - SecondsOf(it.departure_time)

\* The least total duration of the transfer points of one key.
ShortestOfKey(key) ==
    LET durations == { PointDuration(tp) : tp \in { q \in TransferPoints : PointKey(q) = key } }
    IN  CHOOSE m \in durations : \A x \in durations : m <= x

TransferRan == PlanReturned /\ obs.transfer_called

\* C21: for limit >= 1 the transfer finder returns at most limit
\* itineraries with pairwise different keys (departure, route 1, route 2);
\* each is as short as the shortest transfer point of its key; they come in
\* ascending duration, and a key left out has no shorter transfer point than
\* any itinerary returned (it is left out only when limit are returned).
C21_TransferDedup ==
    (TransferRan /\ req.limit >= 1) =>
        LET its == obs.transfer_itineraries
            keys == { PointKey(tp) : tp \in TransferPoints }
        IN  /\ Len(its) <= req.limit
            /\ \A i \in DOMAIN its :
                 /\ TransferKey(its[i]) \in keys
                 /\ TransferDuration(its[i]) = ShortestOfKey(TransferKey(its[i]))
            /\ \A i \in DOMAIN its : \A j \in DOMAIN its :
                 i < j => /\ TransferKey(its[i]) # TransferKey(its[j])
                          /\ TransferDuration(its[i]) <= TransferDuration(its[j])
            /\ \A key \in keys \ { TransferKey(its[i]) : i \in DOMAIN its } :
                 /\ Len(its) = req.limit
                 /\ \A i \in DOMAIN its : TransferDuration(its[i]) <= ShortestOfKey(key)

\* Two transfer points of one key and different durations, two itineraries
\* returned, and a third key left out by the limit.
C21_Witness ==
    /\ TransferRan
    /\ req.limit = 2
    /\ Len(obs.transfer_itineraries) = 2
    /\ \E tp \in TransferPoints : \E other \in TransferPoints :
         /\ PointKey(tp) = PointKey(other)
         /\ PointDuration(tp) < PointDuration(other)
    /\ \E tp \in TransferPoints :
         \A i \in DOMAIN obs.transfer_itineraries :
             PointKey(tp) # TransferKey(obs.transfer_itineraries[i])

\* C22 (as stated): wait_minutes is the whole gap between the outbound
\* arrival and the inbound departure, in minutes, the walk included.
C22_WaitIsGap ==
    PlanReturned =>
        \A tp \in TransferPoints :
            /\ tp.wait_minutes * 60 <= Connection(tp)
            /\ Connection(tp) < tp.wait_minutes * 60 + 60

\* C22 (amended): wait_minutes is the time left of the gap after the walk:
\* the floor, in minutes, of the gap less walk_minutes (0 at the same stop,
\* 2 between platforms of a station, the walking time by proximity); it is
\* the whole gap under the same-stop strategy only.
C22_WaitAfterWalk ==
    PlanReturned =>
        \A tp \in TransferPoints :
            /\ tp.wait_minutes * 60 <= Connection(tp) - tp.walk_minutes * 60
            /\ Connection(tp) - tp.walk_minutes * 60 < tp.wait_minutes * 60 + 60
            /\ (tp.walk_minutes = 0 <=> OutStop(tp) = InStop(tp))

\* One call with a transfer point of each strategy.
C22_Witness ==
    /\ PlanReturned
    /\ \E tp \in TransferPoints : OutStop(tp) = InStop(tp) /\ tp.walk_minutes = 0
    /\ \E tp \in TransferPoints : tp \in StationPoints
    /\ \E tp \in TransferPoints : tp.walk_meters > 0 /\ tp.walk_minutes >= 1

\* How often a stop id occurs in a sequence of stop ids.
Occurrences(seq, stop_id) == Cardinality({ i \in DOMAIN seq : seq[i] = stop_id })

\* C23: in one _find_transfer_points invocation the store is asked for the
\* location of a stop id at most once, with or without a location there;
\* and, the memo being empty at the start of each invocation, it is asked
\* once for every stop id get_location is called with.
C23_LocationMemo ==
    TransferPointsRan =>
        /\ \A i \in DOMAIN obs.location_lookups : \A j \in DOMAIN obs.location_lookups :
             obs.location_lookups[i] = obs.location_lookups[j] => i = j
        /\ { obs.location_lookups[i] : i \in DOMAIN obs.location_lookups }
             = { obs.location_requests[i] : i \in DOMAIN obs.location_requests }
        /\ OutboundStops \cup (InboundStops \ CommonStops)
             \subseteq { obs.location_lookups[i] : i \in DOMAIN obs.location_lookups }

\* get_location was called more than once for a stop without location (N)
\* and more than twice for a stop with one, across strategies 2 and 3.
C23_Witness ==
    /\ TransferPointsRan
    /\ Occurrences(obs.location_requests, "N") >= 2
    /\ Occurrences(obs.location_lookups, "N") = 1
    /\ \E stop_id \in OutboundStops :
         /\ StopRow(stop_id).pos # <<>>
         /\ Occurrences(obs.location_requests, stop_id) >= 2
         /\ Occurrences(obs.location_lookups, stop_id) = 1

\* The callers inside the upstream fetch.
Fetching == { c \in Callers : feeds.caller[c].pc = "fetch" }

\* C24: for one feed cache at most one upstream fetch is in progress at a
\* time, and a non-forced caller starts a fetch only when the cache holds
\* no unexpired value: a caller that was waiting for the lock while another
\* caller's fetch succeeded returns the value that fetch cached, without
\* fetching again, while the TTL has not elapsed.
C24_SingleFlight ==
    [][ /\ Cardinality(Fetching') <= 1
        /\ \A c \in Callers :
             /\ ( /\ feeds.caller[c].pc = "lock"
                  /\ feeds'.caller[c].pc = "fetch"
                  /\ ~feeds.caller[c].force_refresh )
                  => FeedCache_get(feeds.cache, feeds.clock) = None
             /\ ( /\ feeds.caller[c].pc = "lock"
                  /\ feeds'.caller[c].pc # "lock"
                  /\ ~feeds.caller[c].force_refresh
                  /\ FeedCache_get(feeds.cache, feeds.clock) # None )
                  => /\ feeds'.caller[c].pc = "done"
                     /\ feeds'.caller[c].ret = feeds.cache.value
                     /\ feeds'.fetched = feeds.fetched ]_vars

\* Two non-forced callers that both waited for the cache's lock: one
\* returned the data it fetched, the other returned the same data from the
\* double-check later within the ttl, and one fetch was made in all.
C24_Witness ==
    \E c1 \in Callers : \E c2 \in Callers \ {c1} :
        /\ feeds.caller[c1].via = "fetch"
        /\ ~feeds.caller[c1].force_refresh
        /\ feeds.caller[c2].via = "double_check"
        /\ feeds.caller[c2].ret = feeds.caller[c1].ret
        /\ feeds.fetched = 1
        /\ feeds.clock > 0

\* C25: every instance SearchIndex.get_instance returns has completed its
\* load from the database; in particular, after a load that raised, a
\* later call does not return the instance whose load failed.
C25_LoadedSingleton ==
    (op = "get_instance" /\ res.kind = "return") => res.value.loaded

\* The transfers that are feasible for the outbound segments of the call:
\* the transfer points the three strategies give over those segments and
\* every (trip, upstream stop) of an active-service trip to the destination,
\* whatever its departure.
FeasibleTransfers ==
    LET Points(points) == { points[i] : i \in DOMAIN points }
    IN  Points(_find_transfer_points(
                   db, obs.outbound_segments,
                   _get_inbound_segments(db, DestinationId, PlanServices,
                                         <<99, 0, 0>>, req.ord),
                   req.sord).points)

\* C26: every outbound segment and (trip, upstream stop) of an
\* active-service trip to the destination that satisfy the validity rule of
\* a strategy have their transfer point: the bound of Step 2 on the inbound
\* departures discards no feasible transfer.
C26_NoFeasibleDiscarded ==
    (PlanReturned /\ "outbound" \in obs.trip_queries) =>
        FeasibleTransfers \subseteq TransferPoints

\* C27: in every one-transfer itinerary the first leg does not alight at the
\* destination stop and the second leg does not board at the origin stop.
C27_TransferBetweenEndpoints ==
    PlanReturned =>
        \A i \in DOMAIN Itineraries :
            Len(Itineraries[i].legs) = 2 =>
                /\ Itineraries[i].legs[1].to_stop_id # DestinationId
                /\ Itineraries[i].legs[2].from_stop_id # OriginId

\* The itineraries the two finders returned, and those of the response.
Found ==
    { obs.direct_itineraries[i] : i \in DOMAIN obs.direct_itineraries }
      \cup { obs.transfer_itineraries[i] : i \in DOMAIN obs.transfer_itineraries }

Present == { Itineraries[i] : i \in DOMAIN Itineraries }

\* The total duration, in minutes, of the direct ride od and of the
\* transfer point tp.
RideMinutes(od) ==
    (SecondsOf(od[2].arrival_time) - SecondsOf(od[1].departure_time)) \div 60

PointMinutes(tp) == PointDuration(tp) \div 60

\* C28 (as stated): for limit >= 1 no eligible direct ride and no
\* one-transfer connection in the window whose key is not a key of the
\* response is strictly shorter than an itinerary of the response.
C28_BestOverall ==
    (PlanReturned /\ BothResolved /\ req.limit >= 1) =>
        /\ \A od \in DirectEligible :
             (\A it \in Present :
                 Len(it.legs) = 1 =>
                     DirectKey(it) # <<RouteOfTrip(od[1].trip_id), od[1].departure_time>>)
             => \A it \in Present : RideMinutes(od) >= it.total_duration_minutes
        /\ \A tp \in TransferPoints :
             (\A it \in Present : Len(it.legs) = 2 => TransferKey(it) # PointKey(tp))
             => \A it \in Present : PointMinutes(tp) >= it.total_duration_minutes

\* C28 (amended): the response is the best of what the two finders
\* returned: it holds min(limit, found) of their itineraries, in ascending
\* total duration, and none they returned that is absent from it is
\* strictly shorter than one present.  (The direct finder returns the
\* earliest departures, not the shortest rides.)
C28_BestOfFound ==
    (PlanReturned /\ BothResolved /\ req.limit >= 1) =>
        /\ Present \subseteq Found
        /\ Len(Itineraries)
             = (IF req.limit <= Len(obs.direct_itineraries) + Len(obs.transfer_itineraries)
                THEN req.limit
                ELSE Len(obs.direct_itineraries) + Len(obs.transfer_itineraries))
        /\ \A i \in DOMAIN Itineraries : \A j \in DOMAIN Itineraries :
             i < j => Itineraries[i].total_duration_minutes
                        <= Itineraries[j].total_duration_minutes
        /\ \A a \in Found \ Present : \A it \in Present :
             a.total_duration_minutes >= it.total_duration_minutes

\* The finders returned more than limit itineraries; the response holds a
\* transfer itinerary ahead of a direct one and leaves out a found one; and
\* an eligible direct ride that the direct finder did not return is
\* shorter than everything in the response.
C28_Witness ==
    /\ PlanReturned /\ BothResolved /\ req.limit >= 1
    /\ Found \ Present # {}
    /\ \E od \in DirectEligible :
         /\ \A it \in Found :
              Len(it.legs) = 1 =>
                  DirectKey(it) # <<RouteOfTrip(od[1].trip_id), od[1].departure_time>>
         /\ \A it \in Present : RideMinutes(od) < it.total_duration_minutes

\* A time of day as HH:MM:SS, or none given.
WellFormed(time_str) ==
    \/ time_str = None
    \/ /\ ~parse_gtfs_time(time_str).raised
       /\ time_str[1] >= 0
       /\ time_str[2] \in 0 .. 59
       /\ time_str[3] \in 0 .. 59

\* C29: when get_scheduled_arrivals queries the previous day's service
\* (extended mode), the start and the end of the window it uses are both
\* >= 24:00:00, for every well-formed start_time and end_time, given or
\* defaulted, and every current time.
C29_ExtendedWindow ==
    (ArrivalsCalled /\ WellFormed(req.start_time) /\ WellFormed(req.end_time)
       /\ obs.window.use_extended_times) =>
        /\ gtfs_time_to_seconds(obs.window.start_time) >= 24 * 3600
        /\ gtfs_time_to_seconds(obs.window.end_time) >= 24 * 3600

\* Asked at 01:30 for 03:59:59 .. 09:00:00: the window 27:59:59 .. 33:00:00
\* of the previous day.
C29_Witness ==
    /\ ArrivalsCalled
    /\ req.now.hour = 1
    /\ req.start_time = <<3, 59, 59>>
    /\ req.end_time = <<9, 0, 0>>
    /\ obs.window.use_extended_times
    /\ obs.window.start_time = <<27, 59, 59>>
    /\ obs.window.end_time = <<33, 0, 0>>

\* C30: every itinerary plan_trip returns has 1 or 2 legs and num_transfers
\* = legs - 1; its first leg boards at the resolved origin and its last leg
\* alights at the resolved destination; its departure and arrival are the
\* first leg's departure and the last leg's arrival; with 2 legs it is a
\* transfer point of the call, whose second leg departs at least 3 minutes
\* plus the recorded walk minutes after the first leg arrives.
C30_ItineraryStructure ==
    PlanReturned =>
        \A i \in DOMAIN Itineraries :
            LET it == Itineraries[i]
                n == Len(it.legs)
            IN  /\ n \in {1, 2}
                /\ it.num_transfers = n - 1
                /\ it.legs[1].from_stop_id = OriginId
                /\ it.legs[n].to_stop_id = DestinationId
                /\ it.departure_time = it.legs[1].departure_time
                /\ it.arrival_time = it.legs[n].arrival_time
                /\ n = 2 =>
                     \E tp \in TransferPoints :
                        /\ tp.outbound.trip_id = it.legs[1].trip_id
                        /\ OutStop(tp) = it.legs[1].to_stop_id
                        /\ tp.outbound.xfer_arrival = it.legs[1].arrival_time
                        /\ tp.inbound.trip_id = it.legs[2].trip_id
                        /\ InStop(tp) = it.legs[2].from_stop_id
                        /\ tp.inbound.xfer_departure = it.legs[2].departure_time
                        /\ it.transfer_wait_minutes = << tp.wait_minutes >>
                        /\ SecondsOf(it.legs[2].departure_time)
                             - SecondsOf(it.legs[1].arrival_time)
                             >= (MIN_TRANSFER_TIME_MINUTES + tp.walk_minutes) * 60

\* A response with a direct itinerary and a transfer with a walk between
\* two stops.
C30_Witness ==
    /\ PlanReturned
    /\ \E i \in DOMAIN Itineraries : Len(Itineraries[i].legs) = 1
    /\ \E i \in DOMAIN Itineraries :
         /\ Len(Itineraries[i].legs) = 2
         /\ Itineraries[i].legs[1].to_stop_id # Itineraries[i].legs[2].from_stop_id
         /\ Itineraries[i].transfer_walk_meters # <<>>

====
